---- MODULE Spec2Model ----
(***************************************************************************)
(* SimpleOS (src/SimpleOS.py): the thread scheduler (Thread, Scheduler),   *)
(* the instruction engine (CPU.fetch, CPU.step, CPU.run, CPU.run_async,    *)
(* CPU.run_multithreaded, the stack and the SYSCALL gate into              *)
(* Kernel.syscall), the Memory object with its protected regions and       *)
(* memory-mapped handlers, and the instruction codec; with them the        *)
(* engine of src/OS.py (CPU.fetch, CPU.step, CPU.run).                     *)
(*                                                                         *)
(* Register, pc and flag values are naturals; Mask32 is x & 0xFFFFFFFF     *)
(* computed on the two 16-bit halves.  Instruction words with bit 31 set   *)
(* are held in two's complement; unpack_instruction extracts the same      *)
(* fields from them.                                                       *)
(***************************************************************************)
EXTENDS Integers, Sequences, FiniteSets, TLC

VARIABLES
    scheduler,      \* CPU.scheduler: threads, ready_queue, current_thread, next_tid, quantum
    cpu,            \* CPU: pc, regs, eflags, halted, multithreading_enabled
    image,          \* the programs the loader wrote into Memory.data, one per slot
    now,            \* the reading of time.time()
    phase,          \* position of run_multithreaded: "idle", "async", "after", "done"
    args,           \* run_multithreaded's argument: the list of (pc, priority)
    steps,          \* run_async's local counter
    total_steps,    \* run_multithreaded's local counter (its return value)
    executed,       \* history of run_multithreaded: per thread, the instructions run with its context
    run_len,        \* history of run_multithreaded: instructions run since the last dispatch
    last_instr,     \* history of run_multithreaded: the last two instructions run
    last_op,        \* history: the operation the last step performed, its thread and argument
    snapshot,       \* history of the scheduler calls: per thread, the engine at its last suspension
    calls,          \* history: the number of operations performed so far
    engine,         \* the file the engine comes from: "SimpleOS" (src/SimpleOS.py) or "OS" (src/OS.py)
    memory,         \* a Memory object: size, data, protected_regions, mmio_handlers
    last_call,      \* history of the engine and memory calls: the last call and its outcome
    run_hist        \* history of CPU.run: the engine before the first call and the budgets given since

vars == << scheduler, cpu, image, now, phase, args, steps, total_steps,
           executed, run_len, last_instr, last_op, snapshot, calls,
           engine, memory, last_call, run_hist >>

-----------------------------------------------------------------------------
(* Bounds of the model *)

MaxThreads == 3         \* threads created in one behaviour
MaxClock == 1           \* last reading of the clock
MaxCalls == 9           \* scheduler and engine calls in one behaviour of Spec
MaxDuration == 1        \* longest block_thread duration
ShortBody == 1          \* body length of the short programs
LongBody == 103         \* body length of the long programs (more than one quota)

-----------------------------------------------------------------------------
(* Architecture constants *)

NUM_REGS == 16
REG_SP == 14
DEFAULT_MEMORY_BYTES == 67108864
STACK_SIZE == 65536
STACK_BASE == DEFAULT_MEMORY_BYTES - STACK_SIZE
BiosRomSize == 65536
ThreadStackStride == 65536
FLAG_ZERO == 1
FLAG_NEG == 2
FLAG_CARRY == 4
FLAG_OVERFLOW == 8
FLAG_INTERRUPT == 16
DefaultFlags == 514
DefaultPriority == 5
Quantum == 100

OP_NOP == 0
OP_LOADI == 2
OP_ADD == 5
OP_SUB == 6
OP_MUL == 7
OP_DIV == 8
OP_MOD == 9
OP_PUSH == 29
OP_POP == 30
OP_HALT == 31
OP_SYSCALL == 32
OP_INT == 33
OP_IRET == 34
OP_ADC == 68
OP_CLI == 75
OP_SBB == 69
OP_INC == 35
OP_IDIV == 39
OP_ITOA == 240
OP_NOP2 == 83
OP_YIELD == 263

\* src/OS.py: the values that differ from src/SimpleOS.py's
OS_DEFAULT_MEMORY_BYTES == 33554432
OS_OP_NOP == 0
OS_OP_LOADI == 2
OS_OP_HALT == 21
OS_OP_INC == 22
OS_OP_NOP2 == 26
OS_OP_DIV == 39
OS_OP_IDIV == 40
OS_OP_MOD == 41
OS_OP_MOVS == 96
OS_OP_INT == 43
OS_OP_IRET == 44
OS_OP_CLI == 47

\* Kernel.syscall: the call numbers of GET_PID and EXEC, and the address EXEC
\* loads the file at
SYS_GET_PID == 14
SYS_EXEC == 23
ExecBase == 4096

\* CPU.run: "batch_size = 10000"
BatchSize == 10000

None == 0

\* do_runmt: program i is loaded at base_addr + i * 0x10000
LoadBase == 4096
LoadStride == 65536

-----------------------------------------------------------------------------
(* 32-bit helpers *)

Min(a, b) == IF a < b THEN a ELSE b

\* the 16-bit halves of a 32-bit value
Hi16(x) == (x \div 65536) % 65536
Lo16(x) == x % 65536

\* the 32-bit value of two halves; a value v with bit 31 set is held as
\* v - 2^32
Join(hi, lo) == (IF hi >= 32768 THEN hi - 65536 ELSE hi) * 65536 + lo

\* x & 0xFFFFFFFF
Mask32(x) == Join(Hi16(x), Lo16(x))

\* bit 31 of a 32-bit value
Bit31(x) == ((x \div 65536) \div 32768) % 2

\* mask is a single bit
HasFlag(e, mask) == (e \div mask) % 2 = 1
set_flag(e, mask) == IF HasFlag(e, mask) THEN e ELSE e + mask
clear_flag(e, mask) == IF HasFlag(e, mask) THEN e - mask ELSE e

\* an update that leaves the negative flag as it was
update_zero_flag_only(e, val) ==
    IF val = 0 THEN set_flag(e, FLAG_ZERO) ELSE clear_flag(e, FLAG_ZERO)

update_zero_and_neg_flags(e, val) ==
    LET z == IF val = 0 THEN set_flag(e, FLAG_ZERO) ELSE clear_flag(e, FLAG_ZERO)
    IN  IF Bit31(val) = 1 THEN set_flag(z, FLAG_NEG) ELSE clear_flag(z, FLAG_NEG)

to_signed16(x) ==
    LET y == x % 65536 IN IF (y \div 32768) % 2 = 1 THEN y - 65536 ELSE y

\* x - 0x100000000 when bit 31 is set: the value Mask32 holds
to_signed32(x) == Mask32(x)

\* (a + b + c) & 0xFFFFFFFF and whether a + b + c > 0xFFFFFFFF
Sum(a, b, c) ==
    LET lo == Lo16(a) + Lo16(b) + c
        hi == Hi16(a) + Hi16(b) + (lo \div 65536)
    IN  [res |-> Join(hi % 65536, lo % 65536), carry |-> hi >= 65536]

\* (a - b - c) & 0xFFFFFFFF and whether a - b - c < 0
Difference(a, b, c) ==
    LET lo == Lo16(a) - Lo16(b) - c
        hi == Hi16(a) - Hi16(b) + (lo \div 65536)
    IN  [res |-> Join(hi % 65536, lo % 65536), borrow |-> hi < 0]

put_flag(e, mask, on) == IF on THEN set_flag(e, mask) ELSE clear_flag(e, mask)

-----------------------------------------------------------------------------
(* Instruction codec *)

pack_instruction(opcode, dst, src, imm16) ==
    Join((opcode % 256) * 256 + (dst % 16) * 16 + (src % 16), imm16 % 65536)

\* an unpack_instruction that returns the two register fields in each
\* other's place
unpack_instruction_swapped(word) ==
    [ opcode |-> (word \div 16777216) % 256,
      dst    |-> (word \div 65536) % 16,
      src    |-> (word \div 1048576) % 16,
      imm16  |-> word % 65536 ]

unpack_instruction(word) ==
    [ opcode |-> (word \div 16777216) % 256,
      dst    |-> (word \div 1048576) % 16,
      src    |-> (word \div 65536) % 16,
      imm16  |-> word % 65536 ]

-----------------------------------------------------------------------------
(* Memory: the loaded programs *)

\* A program is [n, y, s, r, v]: LOADI r,v, then INC r up to n body
\* instructions, then HALT; when y > 0 the y-th body instruction is the YIELD
\* instruction as the assembler packs it, when s > 0 the s-th is PUSH r.
YieldWord == pack_instruction(OP_YIELD, 0, 0, 0)

InstrAt(p, i) ==
    IF i < p.n
    THEN IF i + 1 = p.y THEN YieldWord
         ELSE IF i + 1 = p.s THEN pack_instruction(OP_PUSH, p.r, 0, 0)
         ELSE IF i = 0 THEN pack_instruction(OP_LOADI, p.r, 0, p.v)
         ELSE pack_instruction(OP_INC, p.r, 0, 0)
    ELSE IF i = p.n THEN pack_instruction(OP_HALT, 0, 0, 0)
    ELSE 0

SlotBase(i) == LoadBase + (i - 1) * LoadStride

\* Memory.data read as a little-endian word at a word-aligned address: M holds
\* the words the engine wrote, img the loaded programs, and the bytearray is
\* zero everywhere else.
DataWord(M, img, addr) ==
    IF addr \in DOMAIN M THEN M[addr]
    ELSE LET hit == { i \in DOMAIN img :
                        /\ addr >= SlotBase(i)
                        /\ addr < SlotBase(i) + 4 * (img[i].n + 1)
                        /\ (addr - SlotBase(i)) % 4 = 0 }
         IN  IF hit = {} THEN 0
             ELSE LET i == CHOOSE j \in hit : TRUE
                  IN  InstrAt(img[i], (addr - SlotBase(i)) \div 4)

\* Memory.check_address(addr, length): the only protected region is the BIOS
\* ROM, which is readable, and an access that leaves it leaves the memory.
check_address(addr, length) == ~ (addr < 0 \/ addr + length > DEFAULT_MEMORY_BYTES)

read_word(M, img, addr) ==
    IF check_address(addr, 4)
    THEN [ok |-> TRUE, val |-> DataWord(M, img, addr)]
    ELSE [ok |-> FALSE, val |-> 0]

\* the BIOS ROM of Memory._init_default_regions has the read permission only
WriteProtected(addr) ==
    addr >= DEFAULT_MEMORY_BYTES - BiosRomSize /\ addr < DEFAULT_MEMORY_BYTES

\* Memory.write_word: [ok, mem], ok false when it raises MemoryError
write_word(M, addr, val) ==
    IF check_address(addr, 4) /\ ~ WriteProtected(addr)
    THEN [ok |-> TRUE,
          mem |-> [a \in DOMAIN M \cup {addr} |-> IF a = addr THEN val ELSE M[a]]]
    ELSE [ok |-> FALSE, mem |-> M]

-----------------------------------------------------------------------------
(* CPU *)

reg_read(C, idx) == Mask32(C.regs[idx])
reg_write(C, idx, val) == [C EXCEPT !.regs[idx] = Mask32(val)]

\* CPU.fetch: a failed fetch halts and yields HALT. program_start and
\* program_end are attributes that only the single-program loader sets.
fetch(C, img) ==
    IF /\ ~ C.multithreading_enabled
       /\ C.program_bounds.set
       /\ ~ (C.program_bounds.start <= C.pc /\ C.pc < C.program_bounds.end)
    THEN [cpu |-> [C EXCEPT !.halted = TRUE], word |-> pack_instruction(OP_HALT, 0, 0, 0)]
    ELSE IF C.pc + 4 > DEFAULT_MEMORY_BYTES \/ C.pc < 0
    THEN [cpu |-> [C EXCEPT !.halted = TRUE], word |-> pack_instruction(OP_HALT, 0, 0, 0)]
    ELSE LET r == read_word(C.mem, img, C.pc)
         IN  IF r.ok THEN [cpu |-> C, word |-> r.val]
             ELSE [cpu |-> [C EXCEPT !.halted = TRUE],
                   word |-> pack_instruction(OP_HALT, 0, 0, 0)]

\* CPU.push_word: [ok, cpu]. (sp - 4) & 0xFFFFFFFF of an sp below 4 is at
\* least 2^32 - 4, past the end of every memory, so write_word raises.
push_word(C, val) ==
    IF reg_read(C, REG_SP) < 4 THEN [ok |-> FALSE, cpu |-> C]
    ELSE LET sp == Mask32(reg_read(C, REG_SP) - 4)
             w  == write_word(C.mem, sp, val)
         IN  IF w.ok THEN [ok |-> TRUE, cpu |-> reg_write([C EXCEPT !.mem = w.mem], REG_SP, sp)]
             ELSE [ok |-> FALSE, cpu |-> C]

\* a pop_word that leaves the stack pointer where it was
pop_word_in_place(C, img) ==
    LET r == read_word(C.mem, img, reg_read(C, REG_SP))
    IN  [ok |-> r.ok, val |-> r.val, cpu |-> C]

\* CPU.pop_word: [ok, val, cpu]
pop_word(C, img) ==
    LET sp == reg_read(C, REG_SP)
        r  == read_word(C.mem, img, sp)
    IN  IF r.ok THEN [ok |-> TRUE, val |-> r.val, cpu |-> reg_write(C, REG_SP, Mask32(sp + 4))]
        ELSE [ok |-> FALSE, val |-> 0, cpu |-> C]

\* The OP_YIELD branch of CPU.step
YieldRequest(C, S) ==
    IF C.multithreading_enabled /\ S.current_thread # None
    THEN [S EXCEPT !.threads[S.current_thread].instructions_executed =
                        S.threads[S.current_thread].time_slice]
    ELSE S

\* Memory.load_bytes of a payload given as words, outside the protected regions
load_words(M, base, data) ==
    LET at == { base + 4 * (i - 1) : i \in DOMAIN data }
    IN  [a \in DOMAIN M \cup at |-> IF a \in at THEN data[(a - base) \div 4 + 1] ELSE M[a]]

\* Kernel.syscall: R0 is the call number, R1 the first argument. EXEC, GET_PID
\* and the final branch for an unknown number are translated; the file system
\* is kernel.files, and the name read_cstring finds at R1 is a key of it or
\* not (read_file raises FileNotFoundError).
Kernel_syscall(C) ==
    LET num == reg_read(C, 0)
        a1  == reg_read(C, 1)
    IN  IF num = SYS_EXEC
        THEN IF a1 \in DOMAIN C.kernel.files
             THEN reg_write([C EXCEPT !.mem = load_words(C.mem, ExecBase, C.kernel.files[a1]),
                                      !.pc = ExecBase], 0, 1)
             ELSE reg_write(C, 0, 0)
        ELSE IF num = SYS_GET_PID THEN reg_write(C, 0, 1)
        ELSE reg_write(C, 0, 0)

\* a zero divisor that forgets the overflow flag
ZeroDivisor_without_flag(C, dst) == reg_write(C, dst, 0)

\* "if b == 0:" of OP_DIV, OP_IDIV and OP_MOD
ZeroDivisor(C, dst) ==
    LET Cw == reg_write(C, dst, 0)
    IN  [Cw EXCEPT !.eflags = set_flag(Cw.eflags, FLAG_OVERFLOW)]

\* the common tail of OP_DIV, OP_IDIV and OP_MOD: the result is written
\* masked, and the flags follow the destination
Quotient(C, dst, b, res) ==
    LET Cw == IF b = 0 THEN ZeroDivisor(C, dst) ELSE reg_write(C, dst, Mask32(res))
    IN  [Cw EXCEPT !.eflags = update_zero_and_neg_flags(Cw.eflags, reg_read(Cw, dst))]

\* a < b of two 32-bit values
UnsignedLess(a, b) ==
    \/ Hi16(a) < Hi16(b)
    \/ Hi16(a) = Hi16(b) /\ Lo16(a) < Lo16(b)

\* CPU.alu_add: [val, eflags]
alu_add(e, a, b) ==
    LET s  == Sum(a, b, 0)
        e1 == put_flag(e, FLAG_CARRY, s.carry)
        e2 == put_flag(e1, FLAG_OVERFLOW,
                       Bit31(a) = Bit31(b) /\ Bit31(a) # Bit31(s.res))
    IN  [val |-> s.res, eflags |-> update_zero_and_neg_flags(e2, s.res)]

\* an alu_sub that stops at zero instead of wrapping
alu_sub_floored(e, a, b) ==
    LET res == IF UnsignedLess(a, b) THEN 0 ELSE Difference(a, b, 0).res
    IN  [val |-> res, eflags |-> update_zero_and_neg_flags(e, res)]

\* CPU.alu_sub: [val, eflags]
alu_sub(e, a, b) ==
    LET d  == Difference(a, b, 0)
        e1 == put_flag(e, FLAG_CARRY, UnsignedLess(a, b))
        e2 == put_flag(e1, FLAG_OVERFLOW,
                       Bit31(a) # Bit31(b) /\ Bit31(a) # Bit31(d.res))
    IN  [val |-> d.res, eflags |-> update_zero_and_neg_flags(e2, d.res)]

\* the second operand of OP_ADC and OP_SBB: "if src == 0x0F" it is the
\* immediate
CarryOperand(C, src, imm16) ==
    IF src = 15 THEN Mask32(to_signed16(imm16)) ELSE reg_read(C, src)

\* the OP_ADC branch of CPU.step
AddWithCarry(C, dst, src, imm16) ==
    LET s  == Sum(reg_read(C, dst), CarryOperand(C, src, imm16),
                  IF HasFlag(C.eflags, FLAG_CARRY) THEN 1 ELSE 0)
        Cw == reg_write(C, dst, s.res)
    IN  [Cw EXCEPT !.eflags = update_zero_and_neg_flags(
                                  put_flag(C.eflags, FLAG_CARRY, s.carry), s.res)]

\* the OP_SBB branch of CPU.step
SubWithBorrow(C, dst, src, imm16) ==
    LET d  == Difference(reg_read(C, dst), CarryOperand(C, src, imm16),
                         IF HasFlag(C.eflags, FLAG_CARRY) THEN 1 ELSE 0)
        Cw == reg_write(C, dst, d.res)
    IN  [Cw EXCEPT !.eflags = update_zero_and_neg_flags(
                                  put_flag(C.eflags, FLAG_CARRY, d.borrow), d.res)]

\* the outcome of a branch of the dispatch chain: exc says that it raised,
\* err which exception
\* jump says that the branch assigned next_pc, target what it assigned
Done(C, S) == [cpu |-> C, sched |-> S, exc |-> FALSE, err |-> "", jump |-> FALSE, target |-> 0]
Raised(C, S, e) == [cpu |-> C, sched |-> S, exc |-> TRUE, err |-> e, jump |-> FALSE, target |-> 0]
Jumped(C, S, t) == [cpu |-> C, sched |-> S, exc |-> FALSE, err |-> "", jump |-> TRUE, target |-> t]

\* interrupt_vector[vector], the entries never written being 0
Handler(C, vector) ==
    IF vector \in DOMAIN C.interrupt_vector THEN C.interrupt_vector[vector] ELSE 0

\* an OP_INT that pushes the flags before the pc
SoftwareInterrupt_flags_first(C, S, imm16) ==
    LET handler == Handler(C, imm16 % 256)
        p1 == push_word(C, C.eflags)
        p2 == push_word(p1.cpu, C.pc)
    IN  IF ~ C.interrupt_enabled \/ handler = 0 THEN Done(C, S)
        ELSE IF ~ p1.ok THEN Raised(C, S, "MemoryError")
        ELSE IF ~ p2.ok THEN Raised(p1.cpu, S, "MemoryError")
        ELSE Jumped([p2.cpu EXCEPT !.interrupt_enabled = FALSE], S, handler)

\* the OP_INT branch of CPU.step
SoftwareInterrupt(C, S, imm16) ==
    LET handler == Handler(C, imm16 % 256)
        p1 == push_word(C, C.pc)
        p2 == push_word(p1.cpu, C.eflags)
    IN  IF ~ C.interrupt_enabled \/ handler = 0 THEN Done(C, S)
        ELSE IF ~ p1.ok THEN Raised(C, S, "MemoryError")
        ELSE IF ~ p2.ok THEN Raised(p1.cpu, S, "MemoryError")
        ELSE Jumped([p2.cpu EXCEPT !.interrupt_enabled = FALSE], S, handler)

\* the OP_IRET branch of CPU.step
InterruptReturn(C, S, img) ==
    LET p1 == pop_word(C, img)
        p2 == pop_word(p1.cpu, img)
    IN  IF ~ p1.ok THEN Raised(C, S, "MemoryError")
        ELSE IF ~ p2.ok THEN Raised(p1.cpu, S, "MemoryError")
        ELSE Jumped([p2.cpu EXCEPT !.eflags = p1.val, !.interrupt_enabled = TRUE], S, p2.val)

\* a chain that skips the word it has no handler for
Unimplemented_skipped(C, S) == Done(C, S)

\* the chain's final "else: raise NotImplementedError"
Unimplemented(C, S) == Raised(C, S, "NotImplementedError")

\* The branch of CPU.step's dispatch chain that the decoded opcode selects.
\* Only the opcodes that occur in the programs of this model are translated;
\* a branch that raises (MemoryError from the memory, or the chain's final
\* NotImplementedError) does so before pc is written.
Execute(C, S, img, opcode, dst, src, imm16) ==
    IF opcode = OP_NOP \/ opcode = OP_NOP2
    THEN Done(C, S)
    ELSE IF opcode = OP_LOADI
    THEN LET Cw == reg_write(C, dst, Mask32(to_signed16(imm16)))
         IN  Done([Cw EXCEPT !.eflags = update_zero_and_neg_flags(Cw.eflags, reg_read(Cw, dst))], S)
    ELSE IF opcode = OP_ADD
    THEN LET r == alu_add(C.eflags, reg_read(C, dst), reg_read(C, src))
         IN  Done(reg_write([C EXCEPT !.eflags = r.eflags], dst, r.val), S)
    ELSE IF opcode = OP_SUB
    THEN LET r == alu_sub(C.eflags, reg_read(C, dst), reg_read(C, src))
         IN  Done(reg_write([C EXCEPT !.eflags = r.eflags], dst, r.val), S)
    ELSE IF opcode = OP_ADC
    THEN Done(AddWithCarry(C, dst, src, imm16), S)
    ELSE IF opcode = OP_SBB
    THEN Done(SubWithBorrow(C, dst, src, imm16), S)
    ELSE IF opcode = OP_PUSH
    THEN LET p == push_word(C, reg_read(C, dst))
         IN  IF p.ok THEN Done(p.cpu, S) ELSE Raised(p.cpu, S, "MemoryError")
    ELSE IF opcode = OP_POP
    THEN LET p == pop_word(C, img)
             Cw == reg_write(p.cpu, dst, p.val)
         IN  IF p.ok
             THEN Done([Cw EXCEPT !.eflags = update_zero_and_neg_flags(Cw.eflags, p.val)], S)
             ELSE Raised(p.cpu, S, "MemoryError")
    ELSE IF opcode = OP_HALT
    THEN Done([C EXCEPT !.halted = TRUE], S)
    ELSE IF opcode = OP_INC
    THEN LET v == Mask32(reg_read(C, dst) + 1)
             Cw == reg_write(C, dst, v)
         IN  Done([Cw EXCEPT !.eflags = update_zero_and_neg_flags(Cw.eflags, v)], S)
    ELSE IF opcode = OP_MUL
    THEN LET a == reg_read(C, dst)
             b == IF src = 15 THEN to_signed16(imm16) ELSE reg_read(C, src)
             res == Mask32(a * b)
             Cw == reg_write(C, dst, res)
         IN  Done([Cw EXCEPT !.eflags = update_zero_and_neg_flags(Cw.eflags, res)], S)
    ELSE IF opcode = OP_DIV
    THEN LET a == reg_read(C, dst)
             b == reg_read(C, src)
         IN  Done(Quotient(C, dst, b, IF b = 0 THEN 0 ELSE a \div b), S)
    ELSE IF opcode = OP_IDIV
    THEN LET a == to_signed32(reg_read(C, dst))
             b == to_signed32(reg_read(C, src))
         IN  Done(Quotient(C, dst, b, IF b = 0 THEN 0 ELSE a \div b), S)
    ELSE IF opcode = OP_MOD
    THEN LET a == reg_read(C, dst)
             b == reg_read(C, src)
         IN  Done(Quotient(C, dst, b, IF b = 0 THEN 0 ELSE a % b), S)
    ELSE IF opcode = OP_INT
    THEN SoftwareInterrupt(C, S, imm16)
    ELSE IF opcode = OP_IRET
    THEN InterruptReturn(C, S, img)
    ELSE IF opcode = OP_CLI
    THEN Done([C EXCEPT !.interrupt_enabled = FALSE], S)
    ELSE IF opcode = OP_SYSCALL
    THEN IF C.kernel.attached THEN Done(Kernel_syscall(C), S)
         ELSE Done(reg_write(C, 0, 0), S)
    ELSE IF opcode = OP_YIELD
    THEN Done(C, YieldRequest(C, S))
    ELSE Unimplemented(C, S)

\* CPU.step up to the end of the dispatch chain: the outcome of the branch
\* taken, before "self.pc = next_pc"
Dispatched(C, S, img) ==
    CHOOSE r \in
      UNION { { Execute(f.cpu, S, img, d.opcode, d.dst, d.src, d.imm16)
                  : d \in {unpack_instruction(f.word)} }
              : f \in {fetch(C, img)} } : TRUE

\* CPU.step. f, d and x are the locals of step, each computed once: the fetch,
\* the decoded fields and the outcome of the dispatch chain; pc is written last.
step(C, S, img) ==
    IF C.halted THEN Done(C, S)
    ELSE CHOOSE r \in
           UNION { UNION { { IF x.exc THEN x
                             ELSE [x EXCEPT !.cpu.pc = IF x.jump THEN x.target
                                                       ELSE Mask32(Mask32(f.cpu.pc + 4))]
                               : x \in {Execute(f.cpu, S, img, d.opcode, d.dst, d.src, d.imm16)} }
                           : d \in {unpack_instruction(f.word)} }
                   : f \in {fetch(C, img)} } : TRUE

\* a budget test that lets one more instruction through
BudgetLeft_one_more(n, limit) == n <= limit

\* CPU.run: "steps < batch_end", n standing for the local counter steps
BudgetLeft(n, limit) == n < limit

\* CPU.run's inner loop "while steps < batch_end and not self.halted"
RECURSIVE run_batch(_, _, _, _, _)
run_batch(C, S, img, n, batch_end) ==
    IF BudgetLeft(n, batch_end) /\ ~ C.halted
    THEN LET x == step(C, S, img)
         IN  IF x.exc THEN [cpu |-> x.cpu, steps |-> n, err |-> x.err]
             ELSE run_batch(x.cpu, x.sched, img, n + 1, batch_end)
    ELSE [cpu |-> C, steps |-> n, err |-> ""]

\* CPU.run's outer loop, entered with n steps counted so far
RECURSIVE run_loop(_, _, _, _, _)
run_loop(C, S, img, n, max_steps) ==
    IF C.halted \/ n >= max_steps THEN [cpu |-> C, steps |-> n, err |-> ""]
    ELSE LET batch_end == Min(n + BatchSize,
                              IF max_steps # 0 THEN max_steps ELSE n + BatchSize)
             b == run_batch(C, S, img, n, batch_end)
         IN  IF b.err # "" THEN b ELSE run_loop(b.cpu, S, img, b.steps, max_steps)

\* CPU.run(max_steps) with a budget given: [cpu, steps, err], steps being the
\* value returned and err the exception that escaped ("" when it returned)
run(C, S, img, max_steps) == run_loop(C, S, img, 0, max_steps)

-----------------------------------------------------------------------------
(* The engine of src/OS.py, where it differs *)

OS_check_address(addr, length) == ~ (addr < 0 \/ addr + length > OS_DEFAULT_MEMORY_BYTES)

\* Memory.read_word of src/OS.py, no region being registered
OS_read_word(M, img, addr) ==
    IF OS_check_address(addr, 4)
    THEN [ok |-> TRUE, val |-> DataWord(M, img, addr)]
    ELSE [ok |-> FALSE, val |-> 0]

\* CPU.fetch of src/OS.py: [ok, word], ok false when it raises MemoryError
OS_fetch(C, img) ==
    IF C.pc + 4 > OS_DEFAULT_MEMORY_BYTES THEN [ok |-> FALSE, word |-> 0]
    ELSE LET r == OS_read_word(C.mem, img, C.pc)
         IN  [ok |-> r.ok, word |-> r.val]

\* CPU.push_word of src/OS.py: [ok, cpu]; the stack pointer is written before
\* the word
OS_push_word(C, val) ==
    IF reg_read(C, REG_SP) < 4 \/ reg_read(C, REG_SP) > OS_DEFAULT_MEMORY_BYTES
    THEN [ok |-> FALSE, cpu |-> C]
    ELSE LET sp == Mask32(reg_read(C, REG_SP) - 4)
         IN  [ok |-> TRUE,
              cpu |-> [reg_write(C, REG_SP, sp) EXCEPT
                          !.mem = [a \in DOMAIN C.mem \cup {sp} |-> IF a = sp THEN val ELSE C.mem[a]]]]

\* CPU.pop_word of src/OS.py: [ok, val, cpu]
OS_pop_word(C, img) ==
    LET sp == reg_read(C, REG_SP)
        r  == OS_read_word(C.mem, img, sp)
    IN  IF sp + 4 > OS_DEFAULT_MEMORY_BYTES \/ ~ r.ok THEN [ok |-> FALSE, val |-> 0, cpu |-> C]
        ELSE [ok |-> TRUE, val |-> r.val, cpu |-> reg_write(C, REG_SP, Mask32(sp + 4))]

\* the OP_INT branch of src/OS.py's CPU.step
OS_SoftwareInterrupt(C, S, imm16) ==
    LET handler == Handler(C, imm16 % 256)
        p1 == OS_push_word(C, C.pc)
        p2 == OS_push_word(p1.cpu, C.eflags)
    IN  IF ~ C.interrupt_enabled \/ handler = 0 THEN Done(C, S)
        ELSE IF ~ p1.ok THEN Raised(C, S, "MemoryError")
        ELSE IF ~ p2.ok THEN Raised(p1.cpu, S, "MemoryError")
        ELSE Jumped([p2.cpu EXCEPT !.interrupt_enabled = FALSE], S, handler)

\* the OP_IRET branch of src/OS.py's CPU.step
OS_InterruptReturn(C, S, img) ==
    LET p1 == OS_pop_word(C, img)
        p2 == OS_pop_word(p1.cpu, img)
    IN  IF ~ p1.ok THEN Raised(C, S, "MemoryError")
        ELSE IF ~ p2.ok THEN Raised(p1.cpu, S, "MemoryError")
        ELSE Jumped([p2.cpu EXCEPT !.eflags = p1.val, !.interrupt_enabled = TRUE], S, p2.val)

\* The dispatch chain of src/OS.py's CPU.step, for the opcodes that occur in
\* the programs of this model
OS_Execute(C, S, img, opcode, dst, src, imm16) ==
    IF opcode = OS_OP_NOP \/ opcode = OS_OP_NOP2
    THEN Done(C, S)
    ELSE IF opcode = OS_OP_INT
    THEN OS_SoftwareInterrupt(C, S, imm16)
    ELSE IF opcode = OS_OP_IRET
    THEN OS_InterruptReturn(C, S, img)
    ELSE IF opcode = OS_OP_CLI
    THEN Done([C EXCEPT !.interrupt_enabled = FALSE], S)
    ELSE IF opcode = OS_OP_LOADI
    THEN LET Cw == reg_write(C, dst, Mask32(to_signed16(imm16)))
         IN  Done([Cw EXCEPT !.eflags = update_zero_and_neg_flags(Cw.eflags, reg_read(Cw, dst))], S)
    ELSE IF opcode = OS_OP_HALT
    THEN Done([C EXCEPT !.halted = TRUE], S)
    ELSE IF opcode = OS_OP_INC
    THEN LET v == Mask32(reg_read(C, dst) + 1)
             Cw == reg_write(C, dst, v)
         IN  Done([Cw EXCEPT !.eflags = update_zero_and_neg_flags(Cw.eflags, v)], S)
    ELSE IF opcode = OS_OP_DIV
    THEN LET a == reg_read(C, dst)
             b == reg_read(C, src)
         IN  Done(Quotient(C, dst, b, IF b = 0 THEN 0 ELSE a \div b), S)
    ELSE IF opcode = OS_OP_IDIV
    THEN LET a == to_signed32(reg_read(C, dst))
             b == to_signed32(reg_read(C, src))
         IN  Done(Quotient(C, dst, b, IF b = 0 THEN 0 ELSE a \div b), S)
    ELSE IF opcode = OS_OP_MOD
    THEN LET a == reg_read(C, dst)
             b == reg_read(C, src)
         IN  Done(Quotient(C, dst, b, IF b = 0 THEN 0 ELSE a % b), S)
    ELSE Unimplemented(C, S)

\* CPU.step of src/OS.py: the fetch is not guarded
OS_step(C, S, img) ==
    IF C.halted THEN Done(C, S)
    ELSE CHOOSE r \in
           UNION { { IF ~ f.ok THEN Raised(C, S, "MemoryError")
                     ELSE LET d == unpack_instruction(f.word)
                              x == OS_Execute(C, S, img, d.opcode, d.dst, d.src, d.imm16)
                          IN  IF x.exc THEN x
                              ELSE [x EXCEPT !.cpu.pc = IF x.jump THEN x.target
                                                        ELSE Mask32(Mask32(C.pc + 4))] }
                   : f \in {OS_fetch(C, img)} } : TRUE

\* CPU.run of src/OS.py: [cpu, n, err]
RECURSIVE OS_run_loop(_, _, _, _, _)
OS_run_loop(C, S, img, n, max_steps) ==
    IF C.halted \/ n >= max_steps THEN [cpu |-> C, steps |-> n, err |-> ""]
    ELSE LET x == OS_step(C, S, img)
         IN  IF x.exc THEN [cpu |-> x.cpu, steps |-> n, err |-> x.err]
             ELSE OS_run_loop(x.cpu, x.sched, img, n + 1, max_steps)

OS_run(C, S, img, max_steps) == OS_run_loop(C, S, img, 0, max_steps)

-----------------------------------------------------------------------------
(* Thread *)

ZeroRegs == [i \in 0 .. NUM_REGS - 1 |-> 0]

\* Thread(tid=tid, pc=pc, priority=priority, time_slice=time_slice): the
\* dataclass defaults fill the other fields
NewThread(tid, pc, priority, time_slice) ==
    [ tid |-> tid, pc |-> pc, regs |-> ZeroRegs, sp |-> 0, flags |-> DefaultFlags,
      state |-> "ready", priority |-> priority, time_slice |-> time_slice,
      instructions_executed |-> 0, total_instructions |-> 0, blocked_until |-> 0 ]

\* a save_context that forgets the flags
save_context_without_flags(th, C) ==
    [th EXCEPT !.pc = C.pc, !.regs = C.regs, !.sp = Mask32(C.regs[REG_SP])]

save_context(th, C) ==
    [th EXCEPT !.pc = C.pc, !.regs = C.regs, !.sp = reg_read(C, REG_SP), !.flags = C.eflags]

restore_context(th, C) ==
    LET Cw == [C EXCEPT !.pc = th.pc, !.regs = th.regs]
        Cx == reg_write(Cw, REG_SP, th.sp)
    IN  [Cx EXCEPT !.eflags = th.flags]

-----------------------------------------------------------------------------
(* Scheduler *)

NewScheduler ==
    [ threads |-> << >>, ready_queue |-> << >>, current_thread |-> None,
      next_tid |-> 1, quantum |-> Quantum ]

ThreadStackTop(tid) == STACK_BASE - tid * ThreadStackStride

create_thread(S, pc, priority) ==
    LET tid == S.next_tid
        thread == [NewThread(tid, pc, priority, S.quantum)
                     EXCEPT !.regs[REG_SP] = ThreadStackTop(tid)]
    IN  [S EXCEPT !.next_tid = tid + 1,
                  !.threads = Append(S.threads, thread),
                  !.ready_queue = Append(S.ready_queue, tid)]

\* a test that forgets the thread's state
Dispatchable_any_state(S, tid) == tid \in DOMAIN S.threads

\* the test that lets schedule_next dispatch the entry it popped
Dispatchable(S, tid) == tid \in DOMAIN S.threads /\ S.threads[tid].state = "ready"

\* a schedule_next that dispatches the ready thread of highest priority
schedule_next_by_priority(S) ==
    LET q == S.ready_queue
        ready == { i \in 1 .. Len(q) : q[i] \in DOMAIN S.threads /\ S.threads[q[i]].state = "ready" }
    IN  IF ready = {} THEN [sched |-> [S EXCEPT !.ready_queue = << >>], thread |-> None]
        ELSE LET k == CHOOSE i \in ready :
                        \A j \in ready :
                            \/ S.threads[q[i]].priority > S.threads[q[j]].priority
                            \/ (S.threads[q[i]].priority = S.threads[q[j]].priority /\ i <= j)
                 tid == q[k]
             IN  [sched |-> [S EXCEPT !.ready_queue = SubSeq(q, 1, k - 1) \o SubSeq(q, k + 1, Len(q)),
                                      !.threads[tid].state = "running",
                                      !.current_thread = tid],
                  thread |-> tid]

\* schedule_next returns the thread it dispatched (None when the queue ran out)
RECURSIVE schedule_next(_)
schedule_next(S) ==
    IF S.ready_queue = << >> THEN [sched |-> S, thread |-> None]
    ELSE LET tid == Head(S.ready_queue)
             S1 == [S EXCEPT !.ready_queue = Tail(S.ready_queue)]
         IN  IF Dispatchable(S1, tid)
             THEN [sched |-> [S1 EXCEPT !.threads[tid].state = "running",
                                        !.current_thread = tid],
                   thread |-> tid]
             ELSE schedule_next(S1)

yield_thread(S, C) ==
    IF S.current_thread = None THEN S
    ELSE LET t == S.current_thread
         IN  [S EXCEPT !.threads[t] = [save_context(S.threads[t], C) EXCEPT !.state = "ready"],
                       !.ready_queue = Append(S.ready_queue, t),
                       !.current_thread = None]

\* a block_thread that leaves the sleeping thread on the ready queue
block_thread_queued(S, C, time, duration) ==
    IF S.current_thread = None THEN S
    ELSE LET t == S.current_thread
         IN  [S EXCEPT !.threads[t] = [save_context(S.threads[t], C)
                                         EXCEPT !.state = "blocked",
                                                !.blocked_until = time + duration],
                       !.ready_queue = Append(S.ready_queue, t),
                       !.current_thread = None]

block_thread(S, C, time, duration) ==
    IF S.current_thread = None THEN S
    ELSE LET t == S.current_thread
         IN  [S EXCEPT !.threads[t] = [save_context(S.threads[t], C)
                                         EXCEPT !.state = "blocked",
                                                !.blocked_until = time + duration],
                       !.current_thread = None]

\* a test that wakes a thread only after its wake time
Due_after(th, current_time) == th.state = "blocked" /\ current_time > th.blocked_until

\* the test of unblock_threads on one thread
Due(th, current_time) == th.state = "blocked" /\ current_time >= th.blocked_until

\* threads.values() iterates in insertion order, which is tid order
unblock_threads(S, current_time) ==
    LET due == SelectSeq([i \in DOMAIN S.threads |-> i],
                         LAMBDA t : Due(S.threads[t], current_time))
    IN  [S EXCEPT !.threads = [t \in DOMAIN S.threads |->
                                 IF Due(S.threads[t], current_time)
                                 THEN [S.threads[t] EXCEPT !.state = "ready"]
                                 ELSE S.threads[t]],
                  !.ready_queue = S.ready_queue \o due]

terminate_thread(S, tid) ==
    IF tid \in DOMAIN S.threads
    THEN LET S1 == [S EXCEPT !.threads[tid].state = "terminated"]
         IN  IF S1.current_thread # None /\ S1.current_thread = tid
             THEN [S1 EXCEPT !.current_thread = None]
             ELSE S1
    ELSE S

get_thread_count(S) == Cardinality({t \in DOMAIN S.threads : S.threads[t].state # "terminated"})

-----------------------------------------------------------------------------
(* CPU.run_async and CPU.run_multithreaded *)

\* CPU(memory) has no kernel, and a new CPU has neither program_start nor
\* program_end
NoKernel == [attached |-> FALSE, files |-> << >>]
NoBounds == [set |-> FALSE, start |-> 0, end |-> 0]

NewCPU ==
    [ pc |-> 0,
      regs |-> [ZeroRegs EXCEPT ![REG_SP] = DEFAULT_MEMORY_BYTES - 16],
      eflags |-> DefaultFlags, halted |-> FALSE, multithreading_enabled |-> FALSE,
      mem |-> << >>, kernel |-> NoKernel, program_bounds |-> NoBounds,
      interrupt_enabled |-> TRUE, interrupt_vector |-> << >> ]

\* a charge that forgets the thread's running total
Charge_slice_only(th) ==
    [th EXCEPT !.instructions_executed = th.instructions_executed + 1]

\* run_async charges the coming instruction to scheduler.current_thread
Charge(th) ==
    [th EXCEPT !.instructions_executed = th.instructions_executed + 1,
               !.total_instructions = th.total_instructions + 1]

\* a test that lets the slice run one instruction over
SliceExpired_late(th) == th.instructions_executed > th.time_slice

\* "Preemptive context switch after time slice"
SliceExpired(th) == th.instructions_executed >= th.time_slice

\* the body of run_async's "if thread.instructions_executed >= thread.time_slice"
ContextSwitch(C, S, time) ==
    LET t  == S.current_thread
        S1 == [S EXCEPT !.threads[t].instructions_executed = 0]
        S2 == yield_thread(S1, C)
        S3 == unblock_threads(S2, time)
        r  == schedule_next(S3)
    IN  IF r.thread # None
        THEN [cpu |-> restore_context(r.sched.threads[r.thread], C), sched |-> r.sched,
              brk |-> FALSE]
        ELSE [cpu |-> C, sched |-> r.sched, brk |-> TRUE]

\* run_async's "if self.multithreading_enabled and self.scheduler.current_thread"
ChargeCurrent(C, S) ==
    IF C.multithreading_enabled /\ S.current_thread # None
    THEN [S EXCEPT !.threads[S.current_thread] = Charge(S.threads[S.current_thread])]
    ELSE S

\* run_async after the charge and before step(): [cpu, sched, brk, switched]
Preempt(C, S, time) ==
    IF C.multithreading_enabled /\ S.current_thread # None
          /\ SliceExpired(S.threads[S.current_thread])
    THEN LET sw == ContextSwitch(C, S, time)
         IN  [cpu |-> sw.cpu, sched |-> sw.sched, brk |-> sw.brk, switched |-> TRUE]
    ELSE [cpu |-> C, sched |-> S, brk |-> FALSE, switched |-> FALSE]

\* run_multithreaded after run_async returned: reap the halted thread, wake
\* the due ones, dispatch the next: [cpu, sched, brk]
AfterSlice(C, S, time) ==
    LET reap == C.halted /\ S.current_thread # None
        S1 == IF reap THEN terminate_thread(S, S.current_thread) ELSE S
        Cw == IF reap THEN [C EXCEPT !.halted = FALSE] ELSE C
        S2 == unblock_threads(S1, time)
        r  == schedule_next(S2)
    IN  IF r.thread # None
        THEN [cpu |-> restore_context(r.sched.threads[r.thread], Cw), sched |-> r.sched,
              brk |-> FALSE]
        ELSE [cpu |-> Cw, sched |-> r.sched, brk |-> TRUE]

RECURSIVE CreateAll(_, _)
CreateAll(S, list) ==
    IF list = << >> THEN S
    ELSE CreateAll(create_thread(S, list[1][1], list[1][2]), Tail(list))

-----------------------------------------------------------------------------
(* Memory: the byte buffer, the protected regions and the MMIO table *)

\* bounds of the memory calls
MaxMemCalls == 3        \* memory calls in one behaviour of SpecMem
MaxOffset == 5          \* last offset from MemBase an access can address
RegionSize == 4         \* size of the regions and MMIO ranges registered

\* the addresses the calls are explored on: a stretch of ordinary memory and
\* the last bytes of the BIOS ROM
MemBase == 2 * LoadBase
RegionStarts == {MemBase, MemBase + 2}
AccessAddrs == (MemBase .. MemBase + MaxOffset)
                  \cup {DEFAULT_MEMORY_BYTES - 4, DEFAULT_MEMORY_BYTES - 2}
Permissions == {1, 2, 3}
\* 0x11223344 and its low byte
WordValue == 17 * 16777216 + 34 * 65536 + 51 * 256 + 68
ByteValue == WordValue % 256
MmioHandler == "device"

\* Memory.__init__ and _init_default_regions: a zeroed bytearray (data holds
\* the bytes written since), the BIOS ROM as the only protected region, no
\* MMIO handler
NewMemory ==
    [ size |-> DEFAULT_MEMORY_BYTES,
      data |-> << >>,
      protected_regions |->
          [a \in {DEFAULT_MEMORY_BYTES - BiosRomSize} |-> [size |-> BiosRomSize, perms |-> 1]],
      mmio_handlers |-> << >> ]

\* self.data[addr]
DataByte(M, addr) == IF addr \in DOMAIN M.data THEN M.data[addr] ELSE 0

\* the protected regions that contain addr
RegionsAt(M, addr) ==
    { p \in DOMAIN M.protected_regions :
        addr >= p /\ addr < p + M.protected_regions[p].size }

itob_le(val) ==
    LET v == Mask32(val)
    IN  << v % 256, (v \div 256) % 256, (v \div 65536) % 256, (v \div 16777216) % 256 >>

btoi_le(b) == b[1] + b[2] * 256 + b[3] * 65536 + b[4] * 16777216

\* Memory.check_address (the definition in force): the error it raises, ""
\* when it returns
Memory_check_address(M, addr, length) ==
    IF addr < 0 \/ addr + length > M.size THEN "out of range"
    ELSE IF \E p \in RegionsAt(M, addr) : ~ HasFlag(M.protected_regions[p].perms, 1)
    THEN "read protected"
    ELSE IF \E p \in RegionsAt(M, addr) :
               /\ length > 1
               /\ addr + length > p + M.protected_regions[p].size
               /\ addr + length - 1 >= M.size
    THEN "cross boundary"
    ELSE ""

\* a loop that finds no region to deny the write
WriteDenied_never(M, addr) == FALSE

\* the loop of write_byte and write_word over protected_regions
WriteDenied(M, addr) ==
    \E p \in RegionsAt(M, addr) : ~ HasFlag(M.protected_regions[p].perms, 2)

\* The four accessors in force are the later definitions of the class body
\* (a class binds a method name to its last definition); each returns
\* [err, val, mem, dispatched]: the error raised ("" when none), the value
\* returned, the memory afterwards and the calls made on MMIO handlers.
Memory_read_byte(M, addr) ==
    LET e == Memory_check_address(M, addr, 1)
    IN  [err |-> e, val |-> IF e = "" THEN DataByte(M, addr) ELSE 0, mem |-> M,
         dispatched |-> << >>]

Memory_write_byte(M, addr, val) ==
    LET e == Memory_check_address(M, addr, 1)
    IN  IF e # "" THEN [err |-> e, val |-> 0, mem |-> M, dispatched |-> << >>]
        ELSE IF WriteDenied(M, addr)
        THEN [err |-> "write protected", val |-> 0, mem |-> M, dispatched |-> << >>]
        ELSE [err |-> "", val |-> 0,
              mem |-> [M EXCEPT !.data = [a \in DOMAIN M.data \cup {addr} |->
                                            IF a = addr THEN val % 256 ELSE M.data[a]]],
              dispatched |-> << >>]

Memory_read_word(M, addr) ==
    LET e == Memory_check_address(M, addr, 4)
    IN  [err |-> e,
         val |-> IF e = "" THEN btoi_le([i \in 1 .. 4 |-> DataByte(M, addr + i - 1)]) ELSE 0,
         mem |-> M, dispatched |-> << >>]

Memory_write_word(M, addr, val) ==
    LET e == Memory_check_address(M, addr, 4)
    IN  IF e # "" THEN [err |-> e, val |-> 0, mem |-> M, dispatched |-> << >>]
        ELSE IF WriteDenied(M, addr)
        THEN [err |-> "write protected", val |-> 0, mem |-> M, dispatched |-> << >>]
        ELSE [err |-> "", val |-> 0,
              mem |-> [M EXCEPT !.data = [a \in DOMAIN M.data \cup (addr .. addr + 3) |->
                                            IF a >= addr /\ a <= addr + 3
                                            THEN itob_le(val)[a - addr + 1]
                                            ELSE M.data[a]]],
              dispatched |-> << >>]

\* Memory.check_expand: the size after "Expand in powers of two"
check_expand(M, required_size) ==
    IF required_size <= M.size THEN M
    ELSE [M EXCEPT !.size = IF M.size * 2 > required_size THEN M.size * 2 ELSE required_size]

\* Memory.load_bytes: the backing storage is expanded first and stays so when
\* the write is denied
Memory_load_bytes(M, addr, payload) ==
    LET M1 == check_expand(M, addr + Len(payload))
        denied == \E p \in DOMAIN M1.protected_regions :
                     /\ ~ HasFlag(M1.protected_regions[p].perms, 2)
                     /\ \/ addr >= p /\ addr < p + M1.protected_regions[p].size
                        \/ addr + Len(payload) > p /\ addr < p + M1.protected_regions[p].size
    IN  IF denied THEN [err |-> "write protected", val |-> 0, mem |-> M1, dispatched |-> << >>]
        ELSE [err |-> "", val |-> 0,
              mem |-> [M1 EXCEPT !.data =
                          [a \in DOMAIN M1.data \cup (addr .. addr + Len(payload) - 1) |->
                              IF a >= addr /\ a < addr + Len(payload)
                              THEN payload[a - addr + 1]
                              ELSE M1.data[a]]],
              dispatched |-> << >>]

\* Memory.register_region: the entry of a region registered at the same
\* address is replaced
register_region(M, addr, size, permissions) ==
    LET M1 == check_expand(M, addr + size)
    IN  [M1 EXCEPT !.protected_regions =
            [a \in DOMAIN M1.protected_regions \cup {addr} |->
               IF a = addr THEN [size |-> size, perms |-> permissions]
               ELSE M1.protected_regions[a]]]

unregister_region(M, addr) ==
    [M EXCEPT !.protected_regions =
        [a \in DOMAIN M.protected_regions \ {addr} |-> M.protected_regions[a]]]

register_mmio(M, start, size, handler) ==
    [M EXCEPT !.mmio_handlers =
        [k \in DOMAIN M.mmio_handlers \cup {<< start, start + size >>} |->
           IF k = << start, start + size >> THEN handler ELSE M.mmio_handlers[k]]]

unregister_mmio(M, start, size) ==
    [M EXCEPT !.mmio_handlers =
        [k \in DOMAIN M.mmio_handlers \ {<< start, start + size >>} |-> M.mmio_handlers[k]]]

\* the MMIO ranges that contain addr
MmioAt(M, addr) == { k \in DOMAIN M.mmio_handlers : k[1] <= addr /\ addr < k[2] }

\* no call yet. op is the call, addr and arg its arguments, err the exception
\* that escaped, ret the value returned, before the object before the call,
\* dispatched the calls made on MMIO handlers; of an engine call, live says
\* that the engine was not halted, word is the word fetched, fetch_failed says
\* that the fetch failed, handler_pc is pc as the opcode's handler left it
NoCall == [op |-> "none", addr |-> 0, arg |-> 0, err |-> "", ret |-> 0,
           before |-> << >>, dispatched |-> << >>, live |-> FALSE, word |-> 0,
           fetch_failed |-> FALSE, handler_pc |-> 0]

NoRuns == [origin |-> << >>, budget |-> 0]

-----------------------------------------------------------------------------
(* Inputs *)

Priorities == {1, DefaultPriority}

\* the programs a slot can hold
ShortProgram(i) == [n |-> ShortBody, y |-> 0, s |-> 0, r |-> i, v |-> i + 1]
LongProgram(i)  == [n |-> LongBody, y |-> 0, s |-> 0, r |-> i, v |-> i + 1]
YieldProgram(i) == [n |-> ShortBody + 2, y |-> 2, s |-> 0, r |-> 0, v |-> i + 1]
PushProgram(i)  == [n |-> ShortBody + 2, y |-> 0, s |-> 2, r |-> i, v |-> i + 1]
ProgramsOf(i) == {ShortProgram(i), LongProgram(i), YieldProgram(i), PushProgram(i)}

Images == UNION { { img \in [1 .. k -> UNION {ProgramsOf(i) : i \in 1 .. k}] :
                      \A i \in 1 .. k : img[i] \in ProgramsOf(i) } : k \in 0 .. MaxThreads }

\* the image the scheduler calls are explored on
ApiImage == [i \in 1 .. MaxThreads |-> ShortProgram(i)]

\* a reading of time.time() no earlier than the last one
Readings == now .. Min(now + 1, MaxClock)

-----------------------------------------------------------------------------
(* History *)

\* the first entry of q that is a ready thread, None when there is none
RECURSIVE FirstReady(_, _)
FirstReady(S, q) ==
    IF q = << >> THEN None
    ELSE IF Head(q) \in DOMAIN S.threads /\ S.threads[Head(q)].state = "ready" THEN Head(q)
    ELSE FirstReady(S, Tail(q))

NoInstr == [tid |-> None, word |-> 0, prev_tid |-> None, prev_word |-> 0, prev_head |-> None,
            head |-> None]

\* the instruction the engine is about to run, by the thread S calls current
Ran(C, S, img, after) ==
    [ tid |-> S.current_thread, word |-> fetch(C, img).word,
      prev_tid |-> last_instr.tid, prev_word |-> last_instr.word,
      prev_head |-> last_instr.head,
      head |-> FirstReady(after, after.ready_queue) ]

Bump(f, t) == IF t \in DOMAIN f THEN [f EXCEPT ![t] = f[t] + 1] ELSE f

NoOp == [op |-> "none", tid |-> None, arg |-> 0]

NoSnapshot == [taken |-> FALSE, pc |-> 0, regs |-> ZeroRegs, eflags |-> 0]

\* the engine state a thread would have to get back
SnapshotOf(C) == [taken |-> TRUE, pc |-> C.pc, regs |-> C.regs, eflags |-> C.eflags]

-----------------------------------------------------------------------------
(* The scheduler's operations, called in any order *)

Init ==
    /\ scheduler = NewScheduler
    /\ cpu = NewCPU
    /\ image = ApiImage
    /\ now = 0
    /\ phase = "api"
    /\ args = << >>
    /\ steps = 0
    /\ total_steps = 0
    /\ executed = << >>
    /\ run_len = 0
    /\ last_instr = NoInstr
    /\ last_op = NoOp
    /\ snapshot = << >>
    /\ calls = 0
    /\ engine = "SimpleOS"
    /\ memory = NewMemory
    /\ last_call = NoCall
    /\ run_hist = NoRuns

CreateThread ==
    /\ phase = "api"
    /\ calls < MaxCalls
    /\ calls' = calls + 1
    /\ scheduler.next_tid <= MaxThreads
    /\ \E priority \in Priorities :
         /\ scheduler' = create_thread(scheduler, SlotBase(scheduler.next_tid), priority)
         /\ last_op' = [op |-> "create_thread", tid |-> scheduler.next_tid, arg |-> priority]
    /\ snapshot' = Append(snapshot, NoSnapshot)
    /\ UNCHANGED << cpu, image, now, phase, args, steps, total_steps, executed, run_len,
                    last_instr >>
    /\ UNCHANGED << engine, memory, last_call, run_hist >>

\* next_thread = schedule_next(); if next_thread: next_thread.restore_context(cpu)
Dispatch ==
    /\ phase = "api"
    /\ calls < MaxCalls
    /\ calls' = calls + 1
    /\ LET r == schedule_next(scheduler)
       IN  /\ scheduler' = r.sched
           /\ cpu' = IF r.thread # None
                     THEN restore_context(r.sched.threads[r.thread], cpu) ELSE cpu
           /\ last_op' = [op |-> "schedule_next", tid |-> r.thread, arg |-> 0]
    /\ UNCHANGED << image, now, phase, args, steps, total_steps, executed, run_len,
                    last_instr, snapshot >>
    /\ UNCHANGED << engine, memory, last_call, run_hist >>

YieldThread ==
    /\ phase = "api"
    /\ calls < MaxCalls
    /\ calls' = calls + 1
    /\ scheduler' = yield_thread(scheduler, cpu)
    /\ last_op' = [op |-> "yield_thread", tid |-> scheduler.current_thread, arg |-> 0]
    /\ snapshot' = IF scheduler.current_thread # None
                   THEN [snapshot EXCEPT ![scheduler.current_thread] = SnapshotOf(cpu)]
                   ELSE snapshot
    /\ UNCHANGED << cpu, image, now, phase, args, steps, total_steps, executed, run_len,
                    last_instr >>
    /\ UNCHANGED << engine, memory, last_call, run_hist >>

BlockThread ==
    /\ phase = "api"
    /\ calls < MaxCalls
    /\ calls' = calls + 1
    /\ \E duration \in 0 .. MaxDuration :
         /\ scheduler' = block_thread(scheduler, cpu, now, duration)
         /\ last_op' = [op |-> "block_thread", tid |-> scheduler.current_thread,
                        arg |-> duration]
    /\ snapshot' = IF scheduler.current_thread # None
                   THEN [snapshot EXCEPT ![scheduler.current_thread] = SnapshotOf(cpu)]
                   ELSE snapshot
    /\ UNCHANGED << cpu, image, now, phase, args, steps, total_steps, executed, run_len,
                    last_instr >>
    /\ UNCHANGED << engine, memory, last_call, run_hist >>

UnblockThreads ==
    /\ phase = "api"
    /\ calls < MaxCalls
    /\ calls' = calls + 1
    /\ scheduler' = unblock_threads(scheduler, now)
    /\ last_op' = [op |-> "unblock_threads", tid |-> None, arg |-> 0]
    /\ UNCHANGED << cpu, image, now, phase, args, steps, total_steps, executed, run_len,
                    last_instr, snapshot >>
    /\ UNCHANGED << engine, memory, last_call, run_hist >>

TerminateThread ==
    /\ phase = "api"
    /\ calls < MaxCalls
    /\ calls' = calls + 1
    /\ \E tid \in 1 .. MaxThreads :
         /\ scheduler' = terminate_thread(scheduler, tid)
         /\ last_op' = [op |-> "terminate_thread", tid |-> tid, arg |-> 0]
    /\ UNCHANGED << cpu, image, now, phase, args, steps, total_steps, executed, run_len,
                    last_instr, snapshot >>
    /\ UNCHANGED << engine, memory, last_call, run_hist >>

\* cpu.step() on the dispatched thread, between two scheduler calls
Step ==
    /\ phase = "api"
    /\ calls < MaxCalls
    /\ calls' = calls + 1
    /\ scheduler.current_thread # None
    /\ ~ cpu.halted
    /\ LET x == step(cpu, scheduler, image)
       IN  /\ ~ x.exc
           /\ cpu' = x.cpu
           /\ scheduler' = x.sched
    /\ last_op' = [op |-> "step", tid |-> scheduler.current_thread, arg |-> 0]
    /\ UNCHANGED << image, now, phase, args, steps, total_steps, executed, run_len,
                    last_instr, snapshot >>
    /\ UNCHANGED << engine, memory, last_call, run_hist >>

\* time passes
Tick ==
    /\ phase = "api"
    /\ now < MaxClock
    /\ now' = now + 1
    /\ UNCHANGED << scheduler, cpu, image, phase, args, steps, total_steps, executed,
                    run_len, last_instr, last_op, snapshot, calls >>
    /\ UNCHANGED << engine, memory, last_call, run_hist >>

Next ==
    \/ CreateThread
    \/ Dispatch
    \/ YieldThread
    \/ BlockThread
    \/ UnblockThreads
    \/ TerminateThread
    \/ Step
    \/ Tick

Spec == Init /\ [][Next]_vars

-----------------------------------------------------------------------------
(* run_multithreaded(threads) on a fresh CPU *)

ArgsOf(img, priority) == [i \in DOMAIN img |-> << SlotBase(i), priority >>]

InitRun ==
    /\ scheduler = NewScheduler
    /\ cpu = NewCPU
    /\ image \in Images
    /\ \E priority \in Priorities : args = ArgsOf(image, priority)
    /\ now = 0
    /\ phase = "idle"
    /\ steps = 0
    /\ total_steps = 0
    /\ executed = << >>
    /\ run_len = 0
    /\ last_instr = NoInstr
    /\ last_op = NoOp
    /\ snapshot = << >>
    /\ calls = 0
    /\ engine = "SimpleOS"
    /\ memory = NewMemory
    /\ last_call = NoCall
    /\ run_hist = NoRuns

\* from the call to the first test of "while get_thread_count() > 0"
RunStart ==
    /\ phase = "idle"
    /\ \E r \in {schedule_next(CreateAll(scheduler, args))} :
       LET Cw == [cpu EXCEPT !.multithreading_enabled = TRUE]
       IN  /\ scheduler' = r.sched
           /\ cpu' = IF r.thread # None
                     THEN restore_context(r.sched.threads[r.thread], Cw) ELSE Cw
           /\ phase' = IF r.thread # None /\ get_thread_count(r.sched) > 0
                       THEN "async" ELSE "done"
    /\ executed' = [i \in DOMAIN args |-> 0]
    /\ steps' = 0
    /\ total_steps' = 0
    /\ run_len' = 0
    /\ last_op' = [op |-> "run_multithreaded", tid |-> None, arg |-> 0]
    /\ UNCHANGED << image, now, args, last_instr, snapshot, calls >>
    /\ UNCHANGED << engine, memory, last_call, run_hist >>

\* one pass of run_async's loop
RunAsyncIter ==
    /\ phase = "async"
    /\ ~ cpu.halted
    /\ \E t \in Readings :
       \E S1 \in {ChargeCurrent(cpu, scheduler)} :
       \E sw \in {Preempt(cpu, S1, t)} :
       \E x \in {IF sw.brk THEN [cpu |-> sw.cpu, sched |-> sw.sched, exc |-> FALSE]
                 ELSE step(sw.cpu, sw.sched, image)} :
         LET ran == ~ sw.brk /\ ~ x.exc
         IN  /\ scheduler' = x.sched
             /\ cpu' = IF x.exc THEN [x.cpu EXCEPT !.multithreading_enabled = FALSE]
                       ELSE x.cpu
             /\ phase' = IF sw.brk THEN "after" ELSE IF x.exc THEN "raised" ELSE "async"
             /\ steps' = IF ran THEN steps + 1 ELSE steps
             /\ now' = IF sw.switched THEN t ELSE now
             /\ executed' = IF ran THEN Bump(executed, x.sched.current_thread) ELSE executed
             /\ run_len' = IF ~ ran THEN run_len ELSE IF sw.switched THEN 1 ELSE run_len + 1
             /\ last_instr' = IF ran THEN Ran(sw.cpu, x.sched, image, x.sched) ELSE last_instr
             /\ last_op' = [op |-> IF sw.switched THEN "switch" ELSE "step",
                            tid |-> x.sched.current_thread, arg |-> 0]
    /\ UNCHANGED << image, args, total_steps, snapshot, calls >>
    /\ UNCHANGED << engine, memory, last_call, run_hist >>

\* run_async's "if self.halted: break" and its return
RunAsyncReturn ==
    /\ phase = "async"
    /\ cpu.halted
    /\ phase' = "after"
    /\ last_op' = [op |-> "return", tid |-> scheduler.current_thread, arg |-> 0]
    /\ UNCHANGED << scheduler, cpu, image, now, args, steps, total_steps, executed, run_len,
                    last_instr, snapshot, calls >>
    /\ UNCHANGED << engine, memory, last_call, run_hist >>

\* the rest of run_multithreaded's loop body, up to the next test of its condition
RunAfter ==
    /\ phase = "after"
    /\ total_steps' = total_steps + steps
    /\ \E t \in Readings : \E a \in {AfterSlice(cpu, scheduler, t)} :
         LET more == ~ a.brk /\ get_thread_count(a.sched) > 0
         IN  /\ scheduler' = a.sched
             /\ cpu' = IF more THEN a.cpu ELSE [a.cpu EXCEPT !.multithreading_enabled = FALSE]
             /\ phase' = IF more THEN "async" ELSE "done"
             /\ now' = t
             /\ last_op' = [op |-> "after", tid |-> a.sched.current_thread, arg |-> 0]
    /\ steps' = 0
    /\ run_len' = 0
    /\ UNCHANGED << image, args, executed, last_instr, snapshot, calls >>
    /\ UNCHANGED << engine, memory, last_call, run_hist >>

NextRun ==
    \/ RunStart
    \/ RunAsyncIter
    \/ RunAsyncReturn
    \/ RunAfter

SpecRun == InitRun /\ [][NextRun]_vars

\* asyncio.run drives the coroutine until it returns or raises: as long as a
\* step of run_multithreaded is possible, one is taken
SpecRunFair == SpecRun /\ WF_vars(NextRun)

-----------------------------------------------------------------------------
(* run_multithreaded called on a scheduler that already holds a sleeping
   thread: the host created it at the first slot, dispatched it and called
   block_thread(cpu, duration) at time 0 *)

Sleeper(duration) ==
    LET r == schedule_next(create_thread(NewScheduler, SlotBase(1), DefaultPriority))
        C == restore_context(r.sched.threads[r.thread], NewCPU)
    IN  [sched |-> block_thread(r.sched, C, 0, duration), cpu |-> C]

InitSleeper ==
    /\ \E duration \in 0 .. MaxDuration :
         /\ scheduler = Sleeper(duration).sched
         /\ cpu = Sleeper(duration).cpu
    /\ image \in Images
    /\ image # << >>
    /\ \E priority \in Priorities : args = ArgsOf(image, priority)
    /\ now = 0
    /\ phase = "idle"
    /\ steps = 0
    /\ total_steps = 0
    /\ executed = << >>
    /\ run_len = 0
    /\ last_instr = NoInstr
    /\ last_op = NoOp
    /\ snapshot = << >>
    /\ calls = 0
    /\ engine = "SimpleOS"
    /\ memory = NewMemory
    /\ last_call = NoCall
    /\ run_hist = NoRuns

SpecSleeper == InitSleeper /\ [][NextRun]_vars

-----------------------------------------------------------------------------
(* One engine on one program: CPU.step and CPU.run called in any order *)

\* bounds of the engine calls
MaxEngineCalls == 4     \* step, run and halt-clearing calls in one behaviour of SpecEngine
MaxBudget == 3          \* largest max_steps given to run
MaxPush == 2            \* most PUSH instructions of a stack program

Engines == {"SimpleOS", "OS"}

\* the opcode each engine gives a mnemonic
OpcodeOf(e, m) ==
    IF e = "OS"
    THEN CASE m = "LOADI" -> OS_OP_LOADI [] m = "INC" -> OS_OP_INC [] m = "HALT" -> OS_OP_HALT
           [] m = "DIV" -> OS_OP_DIV [] m = "IDIV" -> OS_OP_IDIV [] m = "MOD" -> OS_OP_MOD
           [] m = "NONE" -> OS_OP_MOVS [] m = "NOP" -> OS_OP_NOP
           [] m = "INT" -> OS_OP_INT [] m = "IRET" -> OS_OP_IRET [] m = "CLI" -> OS_OP_CLI
    ELSE CASE m = "LOADI" -> OP_LOADI [] m = "INC" -> OP_INC [] m = "HALT" -> OP_HALT
           [] m = "DIV" -> OP_DIV [] m = "IDIV" -> OP_IDIV [] m = "MOD" -> OP_MOD
           [] m = "PUSH" -> OP_PUSH [] m = "POP" -> OP_POP [] m = "SYSCALL" -> OP_SYSCALL
           [] m = "ADD" -> OP_ADD [] m = "SUB" -> OP_SUB
           [] m = "ADC" -> OP_ADC [] m = "SBB" -> OP_SBB [] m = "NOP" -> OP_NOP
           [] m = "INT" -> OP_INT [] m = "IRET" -> OP_IRET [] m = "CLI" -> OP_CLI
           [] m = "NONE" -> OP_ITOA

\* the word of an instruction given by its mnemonic
Word(e, m, dst, src, imm16) == pack_instruction(OpcodeOf(e, m), dst, src, imm16)

StackTop == 2 * LoadBase

\* the file EXEC finds: LOADI R2,5; HALT
ExecFile == << pack_instruction(OP_LOADI, 2, 0, 5), pack_instruction(OP_HALT, 0, 0, 0) >>
TheKernel == [attached |-> TRUE, files |-> << ExecFile >>]

\* the vector the handler of an int program is installed for, and where the
\* handler starts
InstalledVector == 3
HandlerBase == LoadBase + 16

\* 16-bit immediates: 0, 3, 5, 0x7FFF, 0x8000, 0xFFFB, 0xFFFF
Immediates == {0, 3, 5, 32767, 32768, 65531, 65535}

\* 32-bit operands: 0, 1, 0x7FFFFFFF, 0x80000000, 0xFFFFFFFF
Operands == {0, 1, Join(32767, 65535), Join(32768, 0), Join(65535, 65535)}

\* flags an earlier instruction may have left
FlagSets == {DefaultFlags, DefaultFlags + FLAG_CARRY, DefaultFlags + FLAG_OVERFLOW}

OpPairs == { <<"ADD", "SUB">>, <<"SUB", "ADD">>, <<"ADC", "SBB">>, <<"SBB", "ADC">> }

\* The programs, by descriptor.
\*   count:   LOADI R1,v; INC R1; HALT; INC R1; HALT
\*   div:     LOADI R0,a; LOADI R1,b; op R0,R1; HALT
\*   none:    LOADI R1,v; a word whose opcode has no handler; HALT
\*   stack:   LOADI R14,StackTop; LOADI R1,7; LOADI R2,8; n times PUSH R1 or R2;
\*            n times POP, into R3, R4, ... and the last into R(last); HALT
\*   syscall: LOADI R0,num; LOADI R1,a1; SYSCALL; HALT
\*   add:     LOADI R0,a; LOADI R1,b; ADD R0,R1; HALT
\*   alu:     with R1 = a, R2 = b and eflags = f, ops[1] R1,R2; ops[2] R1,R2; HALT
\*   int:     LOADI R14,StackTop; CLI or NOP; INT v; HALT; and the handler,
\*            LOADI R3,0 or nothing and then IRET, installed for
\*            InstalledVector or not at all
Descriptors(e) ==
         { [kind |-> "count", v |-> v] : v \in {1, 7} }
    \cup { [kind |-> "int", v |-> v, installed |-> i, cli |-> c, body |-> b] :
             v \in {InstalledVector, InstalledVector + 1, InstalledVector + 256},
             i \in BOOLEAN, c \in BOOLEAN, b \in BOOLEAN }
    \cup { [kind |-> "div", op |-> op, a |-> a, b |-> b] :
             op \in {"DIV", "IDIV", "MOD"}, a \in {0, 9}, b \in {0, 2} }
    \cup { [kind |-> "none", v |-> 7] }
    \cup (IF e = "OS" THEN {}
          ELSE    { [kind |-> "stack", n |-> n, last |-> d] :
                      n \in 1 .. MaxPush, d \in {5, REG_SP} }
             \cup { [kind |-> "syscall", num |-> num, a1 |-> a1, kernel |-> k] :
                      num \in {SYS_GET_PID, SYS_EXEC, SYS_EXEC + 40}, a1 \in {1, 2},
                      k \in BOOLEAN }
             \cup { [kind |-> "add", a |-> a, b |-> b] : a \in Immediates, b \in Immediates }
             \cup { [kind |-> "alu", ops |-> o, a |-> a, b |-> b, f |-> f] :
                      o \in OpPairs, a \in Operands, b \in Operands, f \in FlagSets })

PushedReg(i) == IF i % 2 = 1 THEN 1 ELSE 2
PoppedReg(d, j) == IF j = d.n THEN d.last ELSE 2 + j

ProgramWords(e, d) ==
    CASE d.kind = "count" ->
           << Word(e, "LOADI", 1, 0, d.v), Word(e, "INC", 1, 0, 0), Word(e, "HALT", 0, 0, 0),
              Word(e, "INC", 1, 0, 0), Word(e, "HALT", 0, 0, 0) >>
      [] d.kind = "div" ->
           << Word(e, "LOADI", 0, 0, d.a), Word(e, "LOADI", 1, 0, d.b),
              Word(e, d.op, 0, 1, 0), Word(e, "HALT", 0, 0, 0) >>
      [] d.kind = "none" ->
           << Word(e, "LOADI", 1, 0, d.v), Word(e, "NONE", 1, 2, 5), Word(e, "HALT", 0, 0, 0) >>
      [] d.kind = "stack" ->
           << Word(e, "LOADI", REG_SP, 0, StackTop), Word(e, "LOADI", 1, 0, 7),
              Word(e, "LOADI", 2, 0, 8) >>
           \o [i \in 1 .. d.n |-> Word(e, "PUSH", PushedReg(i), 0, 0)]
           \o [j \in 1 .. d.n |-> Word(e, "POP", PoppedReg(d, j), 0, 0)]
           \o << Word(e, "HALT", 0, 0, 0) >>
      [] d.kind = "syscall" ->
           << Word(e, "LOADI", 0, 0, d.num), Word(e, "LOADI", 1, 0, d.a1),
              Word(e, "SYSCALL", 0, 0, 0), Word(e, "HALT", 0, 0, 0) >>
      [] d.kind = "int" ->
           << Word(e, "LOADI", REG_SP, 0, StackTop),
              Word(e, IF d.cli THEN "CLI" ELSE "NOP", 0, 0, 0),
              Word(e, "INT", 0, 0, d.v), Word(e, "HALT", 0, 0, 0) >>
           \o (IF d.body THEN << Word(e, "LOADI", 3, 0, 0) >> ELSE << >>)
           \o << Word(e, "IRET", 0, 0, 0) >>
      [] d.kind = "add" ->
           << Word(e, "LOADI", 0, 0, d.a), Word(e, "LOADI", 1, 0, d.b),
              Word(e, "ADD", 0, 1, 0), Word(e, "HALT", 0, 0, 0) >>
      [] d.kind = "alu" ->
           << Word(e, d.ops[1], 1, 2, 0), Word(e, d.ops[2], 1, 2, 0),
              Word(e, "HALT", 0, 0, 0) >>

MemorySizeOf(e) == IF e = "OS" THEN OS_DEFAULT_MEMORY_BYTES ELSE DEFAULT_MEMORY_BYTES

\* CPU.__init__ of src/OS.py: "top_sp = (self.mem.size - 4) // 4 * 4", flags 0
OS_NewCPU ==
    [NewCPU EXCEPT !.regs[REG_SP] = ((OS_DEFAULT_MEMORY_BYTES - 4) \div 4) * 4, !.eflags = 0]

\* the engine after the program was written at LoadBase and pc set to start;
\* bounded says that the shell's single-program loader did it, which also
\* sets the stack pointer and records program_start and program_end
\* (src/SimpleOS.py only)
Loaded(e, d, start, bounded) ==
    LET C == IF e = "OS" THEN OS_NewCPU ELSE NewCPU
        words == ProgramWords(e, d)
    IN  [C EXCEPT !.mem = load_words(C.mem, LoadBase, words),
                  !.pc = start,
                  !.regs[1] = IF d.kind = "alu" THEN d.a ELSE C.regs[1],
                  !.regs[2] = IF d.kind = "alu" THEN d.b ELSE C.regs[2],
                  !.eflags = IF d.kind = "alu" THEN d.f ELSE C.eflags,
                  !.interrupt_vector = IF d.kind = "int" /\ d.installed
                                       THEN InstalledVector :> HandlerBase ELSE << >>,
                  !.regs[REG_SP] = IF bounded THEN Mask32(STACK_BASE - 4) ELSE C.regs[REG_SP],
                  !.kernel = IF d.kind = "syscall" /\ d.kernel THEN TheKernel ELSE NoKernel,
                  !.program_bounds = IF bounded
                                     THEN [set |-> TRUE, start |-> LoadBase,
                                           end |-> LoadBase + 4 * Len(words)]
                                     ELSE NoBounds]

StepOf(e, C, S, img) == IF e = "OS" THEN OS_step(C, S, img) ELSE step(C, S, img)
RunOf(e, C, S, img, k) == IF e = "OS" THEN OS_run(C, S, img, k) ELSE run(C, S, img, k)

\* the fetch of the next step fails
FetchFails(e, C, img) ==
    /\ ~ C.halted
    /\ IF e = "OS" THEN ~ OS_fetch(C, img).ok ELSE fetch(C, img).cpu.halted

\* the word the next step decodes
FetchedWord(e, C, img) ==
    IF e = "OS" THEN OS_fetch(C, img).word ELSE fetch(C, img).word

InitEngine ==
    /\ engine \in Engines
    /\ args \in Descriptors(engine)
    /\ \E start \in {LoadBase, MemorySizeOf(engine)} :
       \E bounded \in {FALSE, engine = "SimpleOS"} :
         cpu = Loaded(engine, args, start, bounded)
    /\ scheduler = NewScheduler
    /\ image = << >>
    /\ now = 0
    /\ phase = "engine"
    /\ steps = 0
    /\ total_steps = 0
    /\ executed = << >>
    /\ run_len = 0
    /\ last_instr = NoInstr
    /\ last_op = NoOp
    /\ snapshot = << >>
    /\ calls = 0
    /\ memory = NewMemory
    /\ last_call = NoCall
    /\ run_hist = [origin |-> cpu, budget |-> 0]

\* cpu.step()
EngineStep ==
    /\ phase = "engine"
    /\ calls < MaxEngineCalls
    /\ calls' = calls + 1
    /\ \E x \in {StepOf(engine, cpu, scheduler, image)} :
         /\ cpu' = x.cpu
         /\ last_call' = [NoCall EXCEPT !.op = "step", !.err = x.err, !.before = cpu,
                                        !.word = FetchedWord(engine, cpu, image),
                                        !.live = ~ cpu.halted,
                                        !.fetch_failed = FetchFails(engine, cpu, image),
                                        !.handler_pc =
                                            IF engine = "OS" \/ cpu.halted THEN cpu.pc
                                            ELSE Dispatched(cpu, scheduler, image).cpu.pc]
         /\ run_hist' = [origin |-> x.cpu, budget |-> 0]
    /\ UNCHANGED << scheduler, image, now, phase, args, steps, total_steps, executed, run_len,
                    last_instr, last_op, snapshot, engine, memory >>

\* cpu.run(max_steps)
EngineRun ==
    /\ phase = "engine"
    /\ calls < MaxEngineCalls
    /\ calls' = calls + 1
    /\ \E max_steps \in 0 .. MaxBudget :
       \E r \in {RunOf(engine, cpu, scheduler, image, max_steps)} :
         /\ cpu' = r.cpu
         /\ last_call' = [NoCall EXCEPT !.op = "run", !.arg = max_steps, !.err = r.err,
                                        !.ret = r.steps, !.before = cpu,
                                        !.live = ~ cpu.halted,
                                        !.fetch_failed = max_steps > 0
                                                         /\ FetchFails(engine, cpu, image)]
         /\ run_hist' = [run_hist EXCEPT !.budget = run_hist.budget + max_steps]
    /\ UNCHANGED << scheduler, image, now, phase, args, steps, total_steps, executed, run_len,
                    last_instr, last_op, snapshot, engine, memory >>

\* the caller clears the halt: "cpu.halted = False"
ClearHalt ==
    /\ phase = "engine"
    /\ calls < MaxEngineCalls
    /\ calls' = calls + 1
    /\ cpu.halted
    /\ cpu' = [cpu EXCEPT !.halted = FALSE]
    /\ last_call' = [NoCall EXCEPT !.op = "clear", !.before = cpu]
    /\ run_hist' = [origin |-> cpu', budget |-> 0]
    /\ UNCHANGED << scheduler, image, now, phase, args, steps, total_steps, executed, run_len,
                    last_instr, last_op, snapshot, engine, memory >>

NextEngine ==
    \/ EngineStep
    \/ EngineRun
    \/ ClearHalt

SpecEngine == InitEngine /\ [][NextEngine]_vars

-----------------------------------------------------------------------------
(* The instruction codec, on every opcode and register and on the immediates
   at the ends and in the middle of the 16-bit range.  src/OS.py defines
   pack_instruction and unpack_instruction with the same text. *)

CodecImmediates == {0, 1, 32767, 32768, 65535}

InitCodec ==
    /\ args \in [opcode : 0 .. 255, dst : 0 .. NUM_REGS - 1, src : 0 .. NUM_REGS - 1,
                 imm16 : CodecImmediates]
    /\ phase = "codec"
    /\ last_call = NoCall
    /\ memory = NewMemory
    /\ engine = "SimpleOS"
    /\ scheduler = NewScheduler
    /\ cpu = NewCPU
    /\ image = << >>
    /\ now = 0
    /\ steps = 0
    /\ total_steps = 0
    /\ executed = << >>
    /\ run_len = 0
    /\ last_instr = NoInstr
    /\ last_op = NoOp
    /\ snapshot = << >>
    /\ calls = 0
    /\ run_hist = NoRuns

CodecFrame ==
    /\ phase = "codec"
    /\ UNCHANGED << scheduler, cpu, image, now, phase, args, steps, total_steps, executed,
                    run_len, last_instr, last_op, snapshot, calls, engine, memory, run_hist >>

\* pack_instruction(opcode, dst, src, imm16)
Pack ==
    /\ CodecFrame
    /\ last_call.op = "none"
    /\ last_call' = [NoCall EXCEPT !.op = "pack",
                                   !.word = pack_instruction(args.opcode, args.dst,
                                                             args.src, args.imm16)]

\* unpack_instruction(word) of the word just packed
Unpack ==
    /\ CodecFrame
    /\ last_call.op = "pack"
    /\ last_call' = [last_call EXCEPT !.op = "unpack",
                                      !.ret = unpack_instruction(last_call.word)]

NextCodec == Pack \/ Unpack

SpecCodec == InitCodec /\ [][NextCodec]_vars

-----------------------------------------------------------------------------
(* The memory calls, in any order *)

InitMem ==
    /\ memory = NewMemory
    /\ last_call = NoCall
    /\ engine = "SimpleOS"
    /\ scheduler = NewScheduler
    /\ cpu = NewCPU
    /\ image = << >>
    /\ now = 0
    /\ phase = "memory"
    /\ args = << >>
    /\ steps = 0
    /\ total_steps = 0
    /\ executed = << >>
    /\ run_len = 0
    /\ last_instr = NoInstr
    /\ last_op = NoOp
    /\ snapshot = << >>
    /\ calls = 0
    /\ run_hist = NoRuns

\* what every memory call leaves alone
MemFrame ==
    /\ phase = "memory"
    /\ calls < MaxMemCalls
    /\ calls' = calls + 1
    /\ UNCHANGED << scheduler, cpu, image, now, phase, args, steps, total_steps, executed,
                    run_len, last_instr, last_op, snapshot, engine, run_hist >>

\* the history of an access: its outcome r, on the memory before it
Accessed(op, addr, val, r) ==
    [NoCall EXCEPT !.op = op, !.addr = addr, !.arg = val, !.err = r.err, !.ret = r.val,
                   !.before = memory, !.dispatched = r.dispatched]

RegisterRegion ==
    /\ MemFrame
    /\ \E addr \in RegionStarts : \E permissions \in Permissions :
         /\ memory' = register_region(memory, addr, RegionSize, permissions)
         /\ last_call' = [NoCall EXCEPT !.op = "register_region", !.addr = addr,
                                        !.arg = permissions, !.before = memory]

UnregisterRegion ==
    /\ MemFrame
    /\ \E addr \in RegionStarts :
         /\ memory' = unregister_region(memory, addr)
         /\ last_call' = [NoCall EXCEPT !.op = "unregister_region", !.addr = addr,
                                        !.before = memory]

RegisterMmio ==
    /\ MemFrame
    /\ memory' = register_mmio(memory, MemBase, RegionSize, MmioHandler)
    /\ last_call' = [NoCall EXCEPT !.op = "register_mmio", !.addr = MemBase, !.before = memory]

UnregisterMmio ==
    /\ MemFrame
    /\ memory' = unregister_mmio(memory, MemBase, RegionSize)
    /\ last_call' = [NoCall EXCEPT !.op = "unregister_mmio", !.addr = MemBase,
                                   !.before = memory]

ReadByte ==
    /\ MemFrame
    /\ \E addr \in AccessAddrs : \E r \in {Memory_read_byte(memory, addr)} :
         /\ memory' = r.mem
         /\ last_call' = Accessed("read_byte", addr, 0, r)

WriteByte ==
    /\ MemFrame
    /\ \E addr \in AccessAddrs : \E r \in {Memory_write_byte(memory, addr, ByteValue)} :
         /\ memory' = r.mem
         /\ last_call' = Accessed("write_byte", addr, ByteValue, r)

ReadWord ==
    /\ MemFrame
    /\ \E addr \in AccessAddrs : \E r \in {Memory_read_word(memory, addr)} :
         /\ memory' = r.mem
         /\ last_call' = Accessed("read_word", addr, 0, r)

WriteWord ==
    /\ MemFrame
    /\ \E addr \in AccessAddrs : \E r \in {Memory_write_word(memory, addr, WordValue)} :
         /\ memory' = r.mem
         /\ last_call' = Accessed("write_word", addr, WordValue, r)

LoadBytes ==
    /\ MemFrame
    /\ \E addr \in AccessAddrs : \E r \in {Memory_load_bytes(memory, addr, itob_le(WordValue))} :
         /\ memory' = r.mem
         /\ last_call' = Accessed("load_bytes", addr, WordValue, r)

NextMem ==
    \/ LoadBytes
    \/ RegisterRegion
    \/ UnregisterRegion
    \/ RegisterMmio
    \/ UnregisterMmio
    \/ ReadByte
    \/ WriteByte
    \/ ReadWord
    \/ WriteWord

SpecMem == InitMem /\ [][NextMem]_vars

-----------------------------------------------------------------------------
(* Properties of the scheduler *)

Threads == DOMAIN scheduler.threads
StateOf(t) == scheduler.threads[t].state
Running == { t \in Threads : StateOf(t) = "running" }
InQueue(t, q) == \E i \in 1 .. Len(q) : q[i] = t
IsPrefix(p, q) == Len(p) <= Len(q) /\ SubSeq(q, 1, Len(p)) = p
IsSuffix(p, q) == Len(p) <= Len(q) /\ SubSeq(q, Len(q) - Len(p) + 1, Len(q)) = p

\* a scheduler or engine call is being performed (every step but the clock's)
Called == calls' # calls

\* C1: after any sequence of scheduler calls at most one thread is in state
\* "running", and that thread is the one current_thread points to.
C1_SingleRunning ==
    /\ Cardinality(Running) <= 1
    /\ \A t \in Running : scheduler.current_thread = t

\* C5: when a thread that was never suspended is dispatched, the engine's
\* stack pointer R14 is that thread's own stack top STACK_BASE - tid * 0x10000.
C5_PrivateStackOnFirstDispatch ==
    ( /\ last_op.op = "schedule_next"
      /\ last_op.tid # None
      /\ ~ snapshot[last_op.tid].taken )
    => cpu.regs[REG_SP] = ThreadStackTop(last_op.tid)

\* C6: a thread that was suspended by yield_thread or block_thread gets back,
\* when it is dispatched again, the pc, the 16 registers (the stack pointer
\* among them) and the flags the engine had when it was suspended; a yielded
\* thread is ready and last in the ready queue.
C6_ContextSwitchLossless ==
    /\ ( /\ last_op.op = "schedule_next"
         /\ last_op.tid # None
         /\ snapshot[last_op.tid].taken )
       => /\ cpu.pc = snapshot[last_op.tid].pc
          /\ \A i \in 0 .. NUM_REGS - 1 : cpu.regs[i] = snapshot[last_op.tid].regs[i]
          /\ cpu.eflags = snapshot[last_op.tid].eflags
    /\ (last_op.op = "yield_thread" /\ last_op.tid # None)
       => /\ StateOf(last_op.tid) = "ready"
          /\ scheduler.ready_queue # << >>
          /\ scheduler.ready_queue[Len(scheduler.ready_queue)] = last_op.tid
          /\ scheduler.current_thread = None

\* C6 witness: a thread that ran, was suspended and is dispatched again after
\* another thread ran and was suspended in its turn.
C6_Witness ==
    /\ last_op.op = "schedule_next"
    /\ last_op.tid # None
    /\ snapshot[last_op.tid].taken
    /\ snapshot[last_op.tid].pc # SlotBase(last_op.tid)
    /\ \E u \in Threads :
         /\ u # last_op.tid
         /\ snapshot[u].taken
         /\ snapshot[u].pc # SlotBase(u)
         /\ snapshot[u].regs # snapshot[last_op.tid].regs

\* C7: once terminated, a thread stays terminated under every later call: no
\* schedule_next dispatches it, no unblock_threads makes it ready, it is never
\* the current thread again; terminate_thread(tid) on a thread of the table
\* leaves it terminated and not current.
C7_TerminationPermanent ==
    [][ /\ \A t \in Threads :
             StateOf(t) = "terminated"
             => /\ scheduler'.threads[t].state = "terminated"
                /\ scheduler'.current_thread # t
                /\ (Called /\ last_op'.op = "schedule_next") => last_op'.tid # t
        /\ (Called /\ last_op'.op = "terminate_thread" /\ last_op'.tid \in Threads)
           => /\ scheduler'.threads[last_op'.tid].state = "terminated"
              /\ scheduler'.current_thread # last_op'.tid
      ]_vars

\* C7 witness: a thread was terminated while it waited in the ready queue, and
\* a later schedule_next passed over its entry and dispatched the thread behind.
C7_Witness ==
    /\ last_op.op = "schedule_next"
    /\ last_op.tid # None
    /\ \E t \in Threads :
         /\ t < last_op.tid
         /\ StateOf(t) = "terminated"
         /\ ~ snapshot[t].taken
         /\ scheduler.threads[t].pc = SlotBase(t)
         /\ ~ InQueue(t, scheduler.ready_queue)
         /\ ~ snapshot[last_op.tid].taken

\* C8: block_thread(d) at clock t leaves the thread blocked with wake time
\* t + d; while the clock is below the wake time unblock_threads leaves the
\* thread blocked and out of the ready queue, and schedule_next never returns
\* it; an unblock_threads call at or after the wake time makes it ready and
\* appends it to the ready queue.
C8_SleepUntilDeadline ==
    [][ Called =>
        /\ (last_op'.op = "block_thread" /\ last_op'.tid # None)
           => /\ scheduler'.threads[last_op'.tid].state = "blocked"
              /\ scheduler'.threads[last_op'.tid].blocked_until = now + last_op'.arg
        /\ \A t \in Threads :
             StateOf(t) = "blocked"
             => /\ last_op'.op = "schedule_next" => last_op'.tid # t
                /\ (last_op'.op = "unblock_threads" /\ now < scheduler.threads[t].blocked_until)
                   => /\ scheduler'.threads[t].state = "blocked"
                      /\ ~ InQueue(t, scheduler'.ready_queue)
                /\ (last_op'.op = "unblock_threads" /\ now >= scheduler.threads[t].blocked_until)
                   => /\ scheduler'.threads[t].state = "ready"
                      /\ IsPrefix(scheduler.ready_queue, scheduler'.ready_queue)
                      /\ InQueue(t, SubSeq(scheduler'.ready_queue,
                                           Len(scheduler.ready_queue) + 1,
                                           Len(scheduler'.ready_queue)))
      ]_vars

\* C8 witness: a thread that slept with a positive duration has been woken by
\* an unblock_threads call made when the clock had reached its wake time.
C8_Witness ==
    /\ last_op.op = "unblock_threads"
    /\ \E t \in Threads :
         /\ StateOf(t) = "ready"
         /\ snapshot[t].taken
         /\ scheduler.threads[t].blocked_until > 0
         /\ scheduler.threads[t].blocked_until = now
         /\ scheduler.ready_queue # << >>
         /\ scheduler.ready_queue[Len(scheduler.ready_queue)] = t

\* the position of the first ready thread in q (0 when there is none)
RECURSIVE FirstReadyAt(_, _, _)
FirstReadyAt(S, q, i) ==
    IF i > Len(q) THEN 0
    ELSE IF q[i] \in DOMAIN S.threads /\ S.threads[q[i]].state = "ready" THEN i
    ELSE FirstReadyAt(S, q, i + 1)

-----------------------------------------------------------------------------
(* Properties of run_multithreaded *)

RECURSIVE SumTotalInstructions(_, _)
SumTotalInstructions(ths, i) ==
    IF i > Len(ths) THEN 0
    ELSE ths[i].total_instructions + SumTotalInstructions(ths, i + 1)

\* the number of instructions of a program, its HALT included
ProgramLength(p) == p.n + 1

\* what run_multithreaded leaves behind when every thread ran its program once
AllRanOnce ==
    /\ Len(scheduler.threads) = Len(args)
    /\ \A t \in Threads :
         /\ StateOf(t) = "terminated"
         /\ executed[t] = ProgramLength(image[t])
    /\ scheduler.current_thread = None
    /\ total_steps = SumTotalInstructions([t \in Threads |-> [total_instructions |-> executed[t]]], 1)

\* no instruction is run twice, and a finished run has run them all
RanAtMostOnce ==
    /\ \A t \in DOMAIN executed : executed[t] <= ProgramLength(image[t])
    /\ phase = "done" => AllRanOnce

\* C2: run_multithreaded over programs that end in HALT returns; when it
\* returns every thread is terminated (none ready, running or blocked) and has
\* executed each instruction of its program, up to and including its HALT,
\* exactly once.
C2_RunsEveryThreadToHalt == <>(phase = "done") /\ []RanAtMostOnce

\* C3: a dispatched thread runs at most its quota of 100 instructions before
\* it is yielded or terminated; the thread that a quota expiry takes off the
\* engine is ready and last in the ready queue.
C3_TimeSliceQuota ==
    /\ run_len <= Quantum
    /\ \A t \in Threads : scheduler.threads[t].time_slice = Quantum
    /\ (last_op.op = "switch" /\ last_op.tid # last_instr.prev_tid)
       => /\ scheduler.ready_queue # << >>
          /\ scheduler.ready_queue[Len(scheduler.ready_queue)] = last_instr.prev_tid
          /\ StateOf(last_instr.prev_tid) = "ready"

\* C3 witness: a thread has run its full quota while another one was ready.
C3_Witness ==
    /\ run_len = Quantum
    /\ phase = "async"
    /\ \E t \in Threads : StateOf(t) = "ready"

\* C9: the count run_multithreaded returns is the sum of total_instructions
\* over the threads it created and ran.
C9_TotalIsSumOfThreadTotals ==
    phase = "done" => total_steps = SumTotalInstructions(scheduler.threads, 1)

\* C9 witness: a finished run of several threads with a preemption in it.
C9_Witness ==
    /\ phase = "done"
    /\ Len(scheduler.threads) >= 2
    /\ total_steps > Quantum
    /\ \E t \in Threads : scheduler.threads[t].total_instructions > Quantum

\* C10: when the current thread executes the YIELD instruction as
\* pack_instruction(OP_YIELD) encodes it, the next instruction executed belongs
\* to the thread that was at the head of the ready queue.
C10_YieldOpcodeYields ==
    ( /\ last_instr.prev_word = YieldWord
      /\ last_instr.prev_tid # None
      /\ last_instr.prev_head # None )
    => last_instr.tid = last_instr.prev_head

-----------------------------------------------------------------------------
(* Properties of the engine *)

\* C11: a step or a run whose fetch fails (pc outside the memory or outside
\* the loaded program's bounds) does not raise: it returns with the engine
\* halted and the registers and flags as they were.
C11_FetchFailureHaltsCleanly ==
    last_call.fetch_failed =>
        /\ last_call.err = ""
        /\ cpu.halted
        /\ cpu.regs = last_call.before.regs
        /\ cpu.eflags = last_call.before.eflags

-----------------------------------------------------------------------------
(* Properties of run_multithreaded on a failing instruction *)

\* the thread whose instruction raised the exception that left run_multithreaded
FailedThread(t) == phase = "raised" /\ scheduler.current_thread = t

\* C12: run_multithreaded brings every thread to termination, but for a
\* thread that stopped because one of its instructions failed: a failing
\* instruction of one thread does not keep the other threads from running.
C12_FaultyThreadIsolated ==
    <>[]( /\ Threads = DOMAIN args
          /\ \A t \in Threads : StateOf(t) = "terminated" \/ FailedThread(t) )

-----------------------------------------------------------------------------
(* Properties of CPU.step and CPU.run *)

\* the opcode of the word the last step fetched
LastOpcode == unpack_instruction(last_call.word).opcode

\* the last call was a step of a running engine that fetched a word of opcode m
Stepped(m) ==
    /\ last_call.op = "step"
    /\ last_call.live
    /\ ~ last_call.fetch_failed
    /\ LastOpcode = OpcodeOf(engine, m)

\* C13: a step on a word whose opcode has no handler raises
\* NotImplementedError and leaves pc, registers, flags and memory as they
\* were, pc still addressing that word.
C13_UnimplementedOpcodeStops ==
    Stepped("NONE") =>
        /\ last_call.err = "NotImplementedError"
        /\ cpu = last_call.before
        /\ DataWord(cpu.mem, image, cpu.pc) = last_call.word

C13_Witness ==
    /\ Stepped("NONE")
    /\ last_call.err = "NotImplementedError"
    /\ cpu.pc = LoadBase + 4
    /\ cpu.regs[1] = 7

\* the last call was a step on DIV, IDIV or MOD with a zero in the source register
DividedByZero ==
    /\ Stepped("DIV") \/ Stepped("IDIV") \/ Stepped("MOD")
    /\ reg_read(last_call.before, unpack_instruction(last_call.word).src) = 0

\* C14: DIV, IDIV and MOD with a zero divisor do not raise: whatever the
\* dividend, the step sets the overflow flag, writes 0 to the destination
\* register, leaves the engine running and moves pc to the next word.
C14_DivisionByZeroContinues ==
    DividedByZero =>
        /\ last_call.err = ""
        /\ HasFlag(cpu.eflags, FLAG_OVERFLOW)
        /\ reg_read(cpu, unpack_instruction(last_call.word).dst) = 0
        /\ ~ cpu.halted
        /\ cpu.pc = last_call.before.pc + 4

C14_Witness ==
    /\ DividedByZero
    /\ Stepped("MOD")
    /\ reg_read(last_call.before, unpack_instruction(last_call.word).dst) = 9
    /\ ~ HasFlag(last_call.before.eflags, FLAG_OVERFLOW)
    /\ cpu.regs[0] = 0

-----------------------------------------------------------------------------
(* Properties of the memory *)

Wrote == last_call.op \in {"write_byte", "write_word"}
Read == last_call.op \in {"read_byte", "read_word"}

\* the last call was an access at an address inside a region whose permission
\* bits are 0x1
InReadOnlyRegion ==
    /\ Wrote \/ Read
    /\ \E p \in RegionsAt(last_call.before, last_call.addr) :
           last_call.before.protected_regions[p].perms = 1
AccessLength == IF last_call.op \in {"read_word", "write_word"} THEN 4 ELSE 1

\* the bytes the buffer held at the address of the last call
BufferValue ==
    IF AccessLength = 1 THEN DataByte(last_call.before, last_call.addr)
    ELSE btoi_le([i \in 1 .. 4 |-> DataByte(last_call.before, last_call.addr + i - 1)])

\* C15 as stated: at every address inside a read-only region write_byte and
\* write_word raise and leave the memory unchanged, and read_byte and
\* read_word succeed.
C15_ReadOnlyRegion ==
    InReadOnlyRegion =>
        /\ Wrote => (last_call.err # "" /\ memory = last_call.before)
        /\ Read => last_call.err = ""

\* C15, amended: at every address inside a read-only region write_byte and
\* write_word raise and leave the memory unchanged; read_byte and read_word
\* return the bytes of the buffer when every region that contains the address
\* is readable and the bytes read lie inside the memory.
C15_ReadOnlyRegionAmended ==
    InReadOnlyRegion =>
        /\ Wrote => (last_call.err # "" /\ memory = last_call.before)
        /\ ( /\ Read
             /\ \A p \in RegionsAt(last_call.before, last_call.addr) :
                    HasFlag(last_call.before.protected_regions[p].perms, 1)
             /\ last_call.addr + AccessLength <= last_call.before.size )
           => (last_call.err = "" /\ last_call.ret = BufferValue /\ memory = last_call.before)

C15_Witness ==
    /\ Wrote
    /\ last_call.addr \in RegionsAt(last_call.before, last_call.addr)
    /\ last_call.addr = MemBase
    /\ last_call.before.protected_regions[MemBase].perms = 1
    /\ last_call.err = "write protected"
    /\ memory = last_call.before

\* C16: read_word and write_word at an address that is not a multiple of 4
\* fail with an error and leave the memory unchanged.
C16_WordAccessAligned ==
    ( /\ last_call.op \in {"read_word", "write_word"}
      /\ last_call.addr % 4 # 0 )
    => (last_call.err # "" /\ memory = last_call.before)

\* C17: while an MMIO handler is registered on a range, every read_byte,
\* write_byte, read_word and write_word at an address of the range makes one
\* call on the handler, with the address relative to the start of the range,
\* and leaves the byte buffer alone.
C17_MmioDispatch ==
    ( /\ Wrote \/ Read
      /\ MmioAt(last_call.before, last_call.addr) # {} )
    => /\ Len(last_call.dispatched) = 1
       /\ \E k \in MmioAt(last_call.before, last_call.addr) :
             /\ last_call.dispatched[1].handler = last_call.before.mmio_handlers[k]
             /\ last_call.dispatched[1].offset = last_call.addr - k[1]
       /\ memory = last_call.before

\* C18: run(max_steps) returns the number of instructions it executed, at
\* most max_steps, and fewer only when the engine halted; it starts at the
\* current pc, also after a halt was cleared (4 bytes further per instruction
\* in a program that does not jump); and the engine after any
\* sequence of runs is the engine one run with the sum of their budgets
\* would have left.
C18_RunBudgetedReenterable ==
    last_call.op = "run" =>
        /\ last_call.err = "" =>
              /\ last_call.ret <= last_call.arg
              /\ last_call.ret < last_call.arg => cpu.halted
              /\ args.kind # "int" => cpu.pc = last_call.before.pc + 4 * last_call.ret
        /\ cpu = RunOf(engine, run_hist.origin, scheduler, image, run_hist.budget).cpu

\* a second run, after a halt was cleared, executed the instruction after the
\* HALT
C18_Witness ==
    /\ last_call.op = "run"
    /\ last_call.err = ""
    /\ last_call.ret > 0
    /\ last_call.arg > last_call.ret
    /\ run_hist.budget > last_call.arg
    /\ run_hist.origin.pc = LoadBase + 12
    /\ cpu.halted

\* C19: a step on SYSCALL with a kernel attached calls kernel.syscall on the
\* engine (R0 the call number, R1 the first argument) and then continues at
\* the pc the kernel left: the pc the kernel set when it changed it, pc + 4
\* otherwise.
C19_SyscallResumesAtKernelPc ==
    ( /\ engine = "SimpleOS"
      /\ Stepped("SYSCALL")
      /\ last_call.before.kernel.attached
      /\ last_call.err = "" )
    => /\ [cpu EXCEPT !.pc = last_call.handler_pc] = Kernel_syscall(last_call.before)
       /\ cpu.pc = IF last_call.handler_pc # last_call.before.pc
                   THEN last_call.handler_pc
                   ELSE last_call.before.pc + 4

-----------------------------------------------------------------------------
(* Properties of the stack *)

LastDst == unpack_instruction(last_call.word).dst

\* the value in the register that the i-th PUSH of a stack program names
PushedValue(i) == IF PushedReg(i) = 1 THEN 7 ELSE 8

\* a stack program ran from its start to just after its last POP
AllPopped ==
    /\ engine = "SimpleOS"
    /\ args.kind = "stack"
    /\ cpu.pc = LoadBase + 4 * (3 + 2 * args.n)

\* every POP so far returned the pushed values in reverse order
ReverseOrder ==
    \A j \in 1 .. args.n :
        cpu.regs[PoppedReg(args, j)] = PushedValue(args.n + 1 - j)

\* the last step was a PUSH: SP went down by 4 and the word at the new SP is
\* the pushed register
PushStep ==
    (engine = "SimpleOS" /\ Stepped("PUSH") /\ last_call.err = "")
    => /\ cpu.regs[REG_SP] = last_call.before.regs[REG_SP] - 4
       /\ read_word(cpu.mem, image, cpu.regs[REG_SP]).val = last_call.before.regs[LastDst]

\* the last step was a POP: the register holds the word that was at SP
PopStepLoads ==
    (engine = "SimpleOS" /\ Stepped("POP") /\ last_call.err = "")
    => cpu.regs[LastDst] =
           read_word(last_call.before.mem, image, last_call.before.regs[REG_SP]).val

\* C20: N PUSH then N POP leave SP where it was and return the pushed values
\* in reverse order; every PUSH takes 4 from SP before it stores and every
\* POP adds 4 to SP after it loads.
C20_StackLifo ==
    /\ AllPopped => (cpu.regs[REG_SP] = StackTop /\ ReverseOrder)
    /\ PushStep
    /\ PopStepLoads
    /\ (engine = "SimpleOS" /\ Stepped("POP") /\ last_call.err = "")
       => cpu.regs[REG_SP] = last_call.before.regs[REG_SP] + 4

\* C20 amended: the same for POPs whose destination is not the stack
\* pointer; a POP into the stack pointer leaves the popped word in it.
C20_StackLifoAmended ==
    /\ AllPopped =>
          /\ ReverseOrder
          /\ args.last # REG_SP => cpu.regs[REG_SP] = StackTop
    /\ PushStep
    /\ PopStepLoads
    /\ (engine = "SimpleOS" /\ Stepped("POP") /\ last_call.err = "" /\ LastDst # REG_SP)
       => cpu.regs[REG_SP] = last_call.before.regs[REG_SP] + 4

\* the last of MaxPush POPs, into a register other than the stack pointer,
\* has just been stepped
C20_Witness ==
    /\ AllPopped
    /\ args.n = MaxPush
    /\ args.last # REG_SP
    /\ Stepped("POP")
    /\ last_call.err = ""
    /\ cpu.regs[REG_SP] = StackTop

-----------------------------------------------------------------------------
(* Properties of the ALU *)

LastSrc == unpack_instruction(last_call.word).src

\* an alu program whose instructions are op1 then op2 has run both
RanBoth(op1, op2) ==
    /\ engine = "SimpleOS"
    /\ args.kind = "alu"
    /\ args.ops = << op1, op2 >>
    /\ cpu.pc = LoadBase + 8

\* C21: ADD r,s followed by SUB r,s, r and s different registers, leaves in
\* r the value it held before, whatever the flags before and in between.
C21_AddThenSubRestores ==
    RanBoth("ADD", "SUB") => cpu.regs[1] = args.a

\* the sum wrapped (0xFFFFFFFF + 1) and the difference borrowed
C21_Witness ==
    /\ RanBoth("ADD", "SUB")
    /\ args.a = Join(65535, 65535)
    /\ args.b = 1
    /\ HasFlag(args.f, FLAG_CARRY)
    /\ Stepped("SUB")
    /\ last_call.before.regs[1] = 0
    /\ cpu.regs[1] = Join(65535, 65535)
    /\ HasFlag(cpu.eflags, FLAG_CARRY)

\* an add program has run to the state after its HALT word
AddHalted ==
    /\ engine = "SimpleOS"
    /\ args.kind = "add"
    /\ cpu.pc = LoadBase + 16

\* C22: LOADI R0,a; LOADI R1,b; ADD R0,R1; HALT run from its first word
\* halts at its fourth step, not before, with R0 = (sext(a) + sext(b)) mod
\* 2^32, the zero flag set iff R0 = 0 and the negative flag set iff bit 31
\* of R0 is 1; a = 5 and b = 3 give R0 = 8 with both flags clear.
C22_LoadAddHalt ==
    /\ (engine = "SimpleOS" /\ args.kind = "add" /\ cpu.pc < LoadBase + 16)
       => ~ cpu.halted
    /\ (engine = "SimpleOS" /\ args.kind = "add" /\ Stepped("HALT"))
       => (last_call.before.pc = LoadBase + 12 /\ cpu.halted /\ cpu.pc = LoadBase + 16)
    /\ (engine = "SimpleOS" /\ args.kind = "add" /\ last_call.op = "run"
        /\ last_call.before.pc = LoadBase /\ ~ last_call.before.halted)
       => (last_call.ret = Min(last_call.arg, 4) /\ (cpu.halted <=> last_call.arg >= 4))
    /\ AddHalted =>
          /\ cpu.regs[0] = Mask32(to_signed16(args.a) + to_signed16(args.b))
          /\ HasFlag(cpu.eflags, FLAG_ZERO) <=> cpu.regs[0] = 0
          /\ HasFlag(cpu.eflags, FLAG_NEG) <=> cpu.regs[0] < 0
          /\ (args.a = 5 /\ args.b = 3) =>
                /\ cpu.regs[0] = 8
                /\ ~ HasFlag(cpu.eflags, FLAG_ZERO)
                /\ ~ HasFlag(cpu.eflags, FLAG_NEG)

\* 0x8000 + 0x8000 sign-extended is 0xFFFF0000: negative, not zero
C22_Witness ==
    /\ AddHalted
    /\ cpu.halted
    /\ args.a = 32768
    /\ args.b = 32768
    /\ cpu.regs[0] = Join(65535, 0)
    /\ HasFlag(cpu.eflags, FLAG_NEG)

\* 5 + 0xFFFB sign-extended is 0: the zero flag is set
C22_WitnessZero ==
    /\ AddHalted
    /\ args.a = 5
    /\ args.b = 65531
    /\ cpu.regs[0] = 0
    /\ HasFlag(cpu.eflags, FLAG_ZERO)


\* the carry that enters the last instruction: the carry flag for ADC and
\* SBB, none for ADD and SUB
CarryIn ==
    IF (Stepped("ADC") \/ Stepped("SBB")) /\ HasFlag(last_call.before.eflags, FLAG_CARRY)
    THEN 1 ELSE 0

\* the operands of the last instruction
OperandA == last_call.before.regs[LastDst]
OperandB == last_call.before.regs[LastSrc]

\* signed overflow by the sign-comparison rule, of an addition or of a
\* subtraction
SignedOverflow(adding) ==
    IF adding
    THEN Bit31(OperandA) = Bit31(OperandB) /\ Bit31(cpu.regs[LastDst]) # Bit31(OperandA)
    ELSE Bit31(OperandA) # Bit31(OperandB) /\ Bit31(cpu.regs[LastDst]) # Bit31(OperandA)

\* C26: after ADD, SUB, ADC or SBB the carry flag is set iff the unsigned
\* result carried or borrowed out of 32 bits and the overflow flag is set iff
\* the signed result overflowed by the sign-comparison rule; otherwise each is
\* clear.
C26_CarryAndOverflow ==
    (engine = "SimpleOS" /\ args.kind = "alu") =>
        /\ (Stepped("ADD") \/ Stepped("ADC")) =>
              /\ HasFlag(cpu.eflags, FLAG_CARRY) <=> Sum(OperandA, OperandB, CarryIn).carry
              /\ HasFlag(cpu.eflags, FLAG_OVERFLOW) <=> SignedOverflow(TRUE)
        /\ (Stepped("SUB") \/ Stepped("SBB")) =>
              /\ HasFlag(cpu.eflags, FLAG_CARRY) <=> Difference(OperandA, OperandB, CarryIn).borrow
              /\ HasFlag(cpu.eflags, FLAG_OVERFLOW) <=> SignedOverflow(FALSE)

-----------------------------------------------------------------------------
(* Properties of the software interrupts *)

LastImm == unpack_instruction(last_call.word).imm16

\* the handler the last instruction's vector had when it was stepped
LastHandler == Handler(last_call.before, LastImm % 256)

\* the word in the engine's memory at addr
WordAt(addr) == DataWord(cpu.mem, image, addr)

\* the stack pointer before the last call
SPBefore == last_call.before.regs[REG_SP]

\* C24: INT with interrupts enabled and a non-zero handler for its vector
\* pushes pc, then the flags (SP 8 lower), disables interrupts and goes on at
\* the handler; INT with no handler or with interrupts disabled pushes nothing
\* and goes on at pc + 4; IRET pops the flags, then pc, restores both (SP 8
\* higher) and enables interrupts.
C24_InterruptProtocol ==
    /\ (Stepped("INT") /\ last_call.err = ""
        /\ last_call.before.interrupt_enabled /\ LastHandler # 0)
       => /\ cpu.regs[REG_SP] = SPBefore - 8
          /\ WordAt(SPBefore - 4) = last_call.before.pc
          /\ WordAt(SPBefore - 8) = last_call.before.eflags
          /\ ~ cpu.interrupt_enabled
          /\ cpu.pc = LastHandler
          /\ cpu = [last_call.before EXCEPT !.regs[REG_SP] = cpu.regs[REG_SP],
                                            !.mem = cpu.mem,
                                            !.interrupt_enabled = FALSE,
                                            !.pc = cpu.pc]
    /\ (Stepped("INT") /\ ~ (last_call.before.interrupt_enabled /\ LastHandler # 0))
       => /\ last_call.err = ""
          /\ cpu = [last_call.before EXCEPT !.pc = last_call.before.pc + 4]
    /\ (Stepped("IRET") /\ last_call.err = "")
       => /\ cpu.eflags = DataWord(last_call.before.mem, image, SPBefore)
          /\ cpu.pc = DataWord(last_call.before.mem, image, SPBefore + 4)
          /\ cpu.regs[REG_SP] = SPBefore + 8
          /\ cpu.interrupt_enabled

\* an INT whose vector, masked to 8 bits, has the handler was taken on the
\* engine of src/OS.py
C24_Witness ==
    /\ engine = "OS"
    /\ Stepped("INT")
    /\ last_call.err = ""
    /\ LastImm = InstalledVector + 256
    /\ cpu.pc = HandlerBase
    /\ cpu.regs[REG_SP] = StackTop - 8
    /\ ~ cpu.interrupt_enabled

\* an IRET gave back the flags the handler had changed
IretRestoredFlags ==
    /\ Stepped("IRET")
    /\ last_call.err = ""
    /\ args.kind = "int"
    /\ args.body
    /\ ~ last_call.before.interrupt_enabled
    /\ cpu.eflags # last_call.before.eflags
    /\ cpu.interrupt_enabled

\* an INT was passed over because interrupts were disabled
IntPassedOver ==
    /\ Stepped("INT")
    /\ ~ last_call.before.interrupt_enabled
    /\ LastHandler # 0
    /\ cpu.pc = last_call.before.pc + 4

\* the flags of an int program when it reaches its INT
FlagsAtInt ==
    update_zero_and_neg_flags(IF engine = "OS" THEN 0 ELSE DefaultFlags, StackTop)

\* C30: the IRET of the handler resumes at the instruction after the INT,
\* with SP and the flags as they were before the INT.
C30_InterruptReturnsPastInt ==
    ( /\ args.kind = "int"
      /\ args.installed
      /\ ~ args.cli
      /\ Stepped("IRET")
      /\ last_call.before.pc >= HandlerBase
      /\ last_call.err = "" )
    => /\ cpu.pc = LoadBase + 12
       /\ cpu.regs[REG_SP] = StackTop
       /\ cpu.eflags = FlagsAtInt

-----------------------------------------------------------------------------
(* Properties of the instruction codec *)

\* C23: unpack_instruction(pack_instruction(op, dst, src, imm16)) is
\* (op, dst, src, imm16) for every opcode in 0..255, dst and src in 0..15 and
\* imm16 in 0..65535, and the packed word is op<<24 | dst<<20 | src<<16 |
\* imm16: its upper half is op * 256 + dst * 16 + src, its lower half imm16.
C23_CodecRoundTrip ==
    /\ last_call.op \in {"pack", "unpack"} =>
          /\ Hi16(last_call.word) = args.opcode * 256 + args.dst * 16 + args.src
          /\ Lo16(last_call.word) = args.imm16
    /\ last_call.op = "unpack" => last_call.ret = args

\* a word with bit 31 set and different register fields went through
C23_Witness ==
    /\ last_call.op = "unpack"
    /\ args = [opcode |-> 255, dst |-> 15, src |-> 14, imm16 |-> 65535]
    /\ last_call.ret = args
    /\ last_call.word < 0

-----------------------------------------------------------------------------
(* Properties of writes near a read-only region *)

\* the regions of the memory before the last call whose permission bits are
\* 0x1
ReadOnlyRegions ==
    { p \in DOMAIN last_call.before.protected_regions :
        last_call.before.protected_regions[p].perms = 1 }

\* the last call was a write_word or a load_bytes of four bytes whose byte
\* range overlaps a read-only region
WroteOverReadOnly ==
    /\ last_call.op \in {"write_word", "load_bytes"}
    /\ \E p \in ReadOnlyRegions :
          /\ last_call.addr + 4 > p
          /\ last_call.addr < p + last_call.before.protected_regions[p].size

\* C27: a write_word or load_bytes whose byte range overlaps a read-only
\* region, also one that starts 1 to 3 bytes below the region, is rejected
\* and leaves every byte of the region as it was.
C27_ReadOnlyBytesKept ==
    WroteOverReadOnly =>
        /\ last_call.err # ""
        /\ \A p \in ReadOnlyRegions :
              \A a \in p .. p + last_call.before.protected_regions[p].size - 1 :
                  DataByte(memory, a) = DataByte(last_call.before, a)

-----------------------------------------------------------------------------
(* Properties of run_multithreaded with a sleeping thread *)

\* C25: run_multithreaded does not end while a thread blocked by
\* block_thread is still waiting to be woken and dispatched.
C25_RunWaitsForSleepers ==
    phase = "done" =>
        \A t \in DOMAIN scheduler.threads : scheduler.threads[t].state # "blocked"

-----------------------------------------------------------------------------
(* Properties of the ready queue *)

\* how many entries of the ready queue name the thread
QueueEntries(tid) ==
    Cardinality({ i \in DOMAIN scheduler.ready_queue : scheduler.ready_queue[i] = tid })

\* C28: after any sequence of scheduler calls every ready thread is on the
\* ready queue exactly once, no running or blocked thread is on it, and every
\* other entry of the queue is the id of a terminated thread.
C28_ReadyQueueConsistent ==
    phase = "api" =>
        /\ \A t \in DOMAIN scheduler.threads :
              /\ scheduler.threads[t].state = "ready" => QueueEntries(t) = 1
              /\ scheduler.threads[t].state \in {"running", "blocked"} => QueueEntries(t) = 0
        /\ \A i \in DOMAIN scheduler.ready_queue :
              /\ scheduler.ready_queue[i] \in DOMAIN scheduler.threads
              /\ scheduler.threads[scheduler.ready_queue[i]].state \in {"ready", "terminated"}

\* a thread that was dispatched, blocked, woken and is on the queue again
\* behind the stale id of a terminated thread, while another thread runs
C28_Witness ==
    /\ phase = "api"
    /\ last_op.op = "unblock_threads"
    /\ Len(scheduler.threads) = MaxThreads
    /\ \E t, u, v \in DOMAIN scheduler.threads :
         /\ scheduler.threads[t].state = "ready"
         /\ scheduler.threads[t].blocked_until > 0
         /\ scheduler.threads[u].state = "terminated"
         /\ scheduler.threads[v].state = "running"
         /\ scheduler.ready_queue = << u, t >>

-----------------------------------------------------------------------------
(* Properties of the per-thread instruction counts *)

\* C29: at every point of run_multithreaded between two passes of run_async's
\* loop, each thread's total_instructions is the number of instructions the
\* engine executed with that thread's context.
C29_ChargedToTheThreadThatRan ==
    phase \in {"async", "after", "done"} =>
        \A t \in DOMAIN executed :
            scheduler.threads[t].total_instructions = executed[t]

====
